---- MODULE Spec2Model ----
(***************************************************************************)
(* A model of sunxi-fel (fel.c): the host side of the Allwinner FEL        *)
(* protocol.  Two specifications share this module:                        *)
(*                                                                         *)
(*   Spec     the command loop of main(): one step per command handler;    *)
(*            the trace of a handler is the sequence of FEL operations it  *)
(*            issues (VERSION / READ / WRITE / EXEC with address, length   *)
(*            and a description of the payload).  It describes the runs in *)
(*            which libusb_bulk_transfer() returns 0.                      *)
(*   SpecUsb  the layers below a FEL operation (aw_fel, aw_usb and the     *)
(*            bulk transfers): one step per libusb_bulk_transfer(); the    *)
(*            trace is the sequence of transfers, and a transfer may fail. *)
(*                                                                         *)
(* TLC integers are 32-bit signed, so uint32_t addresses are kept modulo   *)
(* 2^AddrBits (AddrBits < 31) and every modelled address lies below that;  *)
(* the eGON checksum, where all 32 bits matter, is computed on words kept  *)
(* as two 16-bit halves.  size_t is 64 bits wide (LP64 host): sums of a    *)
(* uint32_t and a size_t are not reduced.                                  *)
(***************************************************************************)
EXTENDS Integers, Sequences, FiniteSets, TLC

(***************************************************************************)
(* Bounds of the model.                                                    *)
(***************************************************************************)
\* width of the modelled uint32_t address arithmetic
AddrBits == 28

\* largest argc main() is started with
MaxArgc == 6

\* number of FEL operations in one run of SpecUsb
MaxFelOps == 2

AddrSpace == 2 ^ AddrBits

\* uint32_t arithmetic: the result of an unsigned expression, reduced
U32(x) == x % AddrSpace

Min(a, b) == IF a < b THEN a ELSE b

Bit(x, k) == (x \div (2 ^ k)) % 2

(***************************************************************************)
(* 32-bit words as <<high half, low half>>: exact modulo 2^32.             *)
(***************************************************************************)
W32(hi, lo) == <<hi, lo>>

W32Zero == <<0, 0>>

Add32(a, b) ==
    LET lo == a[2] + b[2]
        hi == a[1] + b[1] + (lo \div 65536)
    IN  <<hi % 65536, lo % 65536>>

Neg32(a) ==
    IF a[2] = 0 THEN <<(65536 - a[1]) % 65536, 0>>
    ELSE <<65535 - a[1], 65536 - a[2]>>

Sub32(a, b) == Add32(a, Neg32(b))

\* the value of a word that is known to fit the modelled address width
W32Val(w) == w[1] * 65536 + w[2]

W32Fits(w) == w[1] < 2 ^ (AddrBits - 16)

W32Of(n) == <<n \div 65536, n % 65536>>

(***************************************************************************)
(* Byte strings (ASCII codes).                                             *)
(***************************************************************************)
Str_eGON_BT0 == <<101, 71, 79, 78, 46, 66, 84, 48>>

Str_eGON_FEL == <<101, 71, 79, 78, 46, 70, 69, 76>>

Str_uEnv == <<35, 61, 117, 69, 110, 118>>

Str_SPL == <<83, 80, 76>>

Str_AWUS == <<65, 87, 85, 83>>

\* the C string held in a byte array: the bytes before the first NUL
RECURSIVE CStr(_)
CStr(s) ==
    IF s = <<>> \/ Head(s) = 0 THEN <<>> ELSE <<Head(s)>> \o CStr(Tail(s))

\* strcmp(a, b) == 0, for arrays that hold a terminating NUL
strcmp_eq(a, b) == CStr(a) = CStr(b)

(***************************************************************************)
(* Program constants.                                                      *)
(***************************************************************************)
AW_USB_READ == 17

AW_USB_WRITE == 18

AW_USB_MAX_BULK_SEND == 512 * 1024

AW_FEL_VERSION == 1

AW_FEL_1_WRITE == 257

AW_FEL_1_EXEC == 258

AW_FEL_1_READ == 259

IH_MAGIC == <<\h2705, \h1956>>

IH_ARCH_ARM == 2

IH_TYPE_INVALID == 0

IH_TYPE_FIRMWARE == 5

IH_TYPE_SCRIPT == 6

IH_TYPE_ARCH_MISMATCH == -1

IH_NMLEN == 32

HEADER_NAME_OFFSET == 32

HEADER_SIZE == HEADER_NAME_OFFSET + IH_NMLEN

LCODE_ARM_WORDS == 12

LCODE_ARM_SIZE == LCODE_ARM_WORDS * 4

LCODE_MAX_TOTAL == 256

LCODE_MAX_WORDS == LCODE_MAX_TOTAL - LCODE_ARM_WORDS

SPL_LEN_LIMIT == \h8000

EGON_STAMP == <<\h5F0A, \h6C39>>

SPL_MIN_VERSION == 1

SPL_MAX_VERSION == 1

\* sizeof(fel_to_spl_thunk): the blob of fel-to-spl-thunk.h, in bytes
FEL_TO_SPL_THUNK_SIZE == 252

\* sizeof(struct aw_fel_version)
FEL_VERSION_SIZE == 32

(***************************************************************************)
(* The SoC table (soc_info.c is not part of the sources; the records       *)
(* follow the data model of the specification: scratch_addr, spl_addr,     *)
(* thunk_addr, thunk_size, swap_buffers ending in a zero-size entry,       *)
(* sid_addr, rvbar_reg, mmu_tt_addr, needs_l2en; 0 = absent).              *)
(***************************************************************************)
Swap(b1, b2, sz) == [buf1 |-> b1, buf2 |-> b2, size |-> sz]

SwapEnd == Swap(0, 0, 0)

a10_sram_swap_buffers ==
    << Swap(\h1C00, \hA400, \h0400), Swap(\h5C00, \hA800, \h1400),
       Swap(\h7C00, \hBC00, \h0400), SwapEnd >>

a64_sram_swap_buffers ==
    << Swap(\h11800, \h18000, \h0800), Swap(\h15C00, \h18800, \h2400), SwapEnd >>

SocRec(id, scratch, spl, thunk, tsize, swaps, sid, rvbar, tt, l2en) ==
    [soc_id |-> id, scratch_addr |-> scratch, spl_addr |-> spl,
     thunk_addr |-> thunk, thunk_size |-> tsize, swap_buffers |-> swaps,
     sid_addr |-> sid, rvbar_reg |-> rvbar, mmu_tt_addr |-> tt,
     needs_l2en |-> l2en]

soc_info_table ==
    << \* A10: L2 cache enable needed, boot ROM runs with the MMU on
       SocRec(\h1623, \h1000, 0, \hA200, \h200, a10_sram_swap_buffers,
              \h01C23800, 0, 0, TRUE),
       \* H3: a translation table is generated at mmu_tt_addr
       SocRec(\h1680, \h1000, 0, \hA200, \h200, a10_sram_swap_buffers,
              \h01C14200, 0, \h8000, FALSE),
       \* A64: SPL area at 0x10000, RVBAR known
       SocRec(\h1689, \h11000, \h10000, \h1A200, \h200, a64_sram_swap_buffers,
              \h01C14200, \h017000A0, 0, FALSE),
       \* one swap buffer whose buf2 lies outside the SPL area (the
       \* scenario of the specification), thunk below SPL_LEN_LIMIT
       SocRec(\h1701, \h1000, 0, \h7000, \h200,
              << Swap(\h2000, \hA000, \h0400), SwapEnd >>, 0, 0, 0, FALSE),
       \* a swap buffer whose buf2 lies inside the SPL area
       SocRec(\h1702, \h1000, 0, \hA200, \h200,
              << Swap(\h1C00, \h6000, \h0400), SwapEnd >>, 0, 0, 0, FALSE),
       \* SPL area at 0x10000 with the thunk placed at its end
       SocRec(\h1703, \h19000, \h10000, \h17E00, \h200,
              << Swap(\h11800, \h18000, \h0800), SwapEnd >>, 0, 0, 0, FALSE),
       \* a record whose mmu_tt_addr is not 16 KiB aligned
       SocRec(\h1704, \h1000, 0, \hA200, \h200, a10_sram_swap_buffers,
              0, 0, \h8100, FALSE),
       \* a record whose thunk area is too small for the thunk and its list
       SocRec(\h1705, \h1000, 0, \hA200, \h100, a10_sram_swap_buffers,
              0, 0, 0, FALSE)
    >>

\* the SoC ids a device may report: those of the table and one unknown id
SocIds == { soc_info_table[i].soc_id : i \in DOMAIN soc_info_table } \cup { \h1999 }

\* get_soc_info_from_version(): the index of the matching record, 0 = NULL
get_soc_info_from_version(soc_id) ==
    IF \E i \in DOMAIN soc_info_table : soc_info_table[i].soc_id = soc_id
    THEN CHOOSE i \in DOMAIN soc_info_table : soc_info_table[i].soc_id = soc_id
    ELSE 0

NULL == 0

(***************************************************************************)
(* Files: byte arrays described by their length, their leading bytes, the  *)
(* bytes at tail_off (the second image of a combined file) and the byte    *)
(* that fills the rest.                                                    *)
(***************************************************************************)
LeBytes(w) == << w[2] % 256, w[2] \div 256, w[1] % 256, w[1] \div 256 >>

BeBytes(w) == << w[1] \div 256, w[1] % 256, w[2] \div 256, w[2] % 256 >>

Zeros(n) == [k \in 1..n |-> 0]

FileRec(len, head, fill, tail_off, tail) ==
    [len |-> len, head |-> head, fill |-> fill, tail_off |-> tail_off, tail |-> tail]

ByteAt(f, o) ==
    IF o < Len(f.head) THEN f.head[o + 1]
    ELSE IF o >= f.tail_off /\ o - f.tail_off < Len(f.tail)
         THEN f.tail[o - f.tail_off + 1]
         ELSE f.fill

\* le32toh() of the i-th 32-bit word of a file
FileLe32(f, i) ==
    W32(ByteAt(f, 4*i + 2) + 256 * ByteAt(f, 4*i + 3),
        ByteAt(f, 4*i) + 256 * ByteAt(f, 4*i + 1))

\* the sum of the words i with lo <= i < hi of a file, modulo 2^32
RECURSIVE FileWordsSum(_, _, _)
FileWordsSum(f, lo, hi) ==
    IF hi <= lo THEN W32Zero
    ELSE IF hi = lo + 1 THEN FileLe32(f, lo)
    ELSE LET m == (lo + hi) \div 2
         IN  Add32(FileWordsSum(f, lo, m), FileWordsSum(f, m, hi))

\* an eGON header: branch instruction, magic, checksum, length, "SPL" and
\* the header version, the two hand-over slots
EgonHead(magic, csum, spl_len, version) ==
    <<16, 0, 0, 234>> \o magic \o LeBytes(csum) \o LeBytes(W32Of(spl_len))
        \o Str_SPL \o <<version>> \o Zeros(8)

\* what mksunxiboot does: the checksum field holds the stamp while the words
\* are summed, and then the sum
EgonFile(len, magic, spl_len, delta, tail) ==
    LET stamped == FileRec(len, EgonHead(magic, EGON_STAMP, spl_len, 1), 165,
                           SPL_LEN_LIMIT, tail)
        n       == Min(spl_len, len) \div 4
        csum    == Add32(FileWordsSum(stamped, 0, n), W32(0, delta))
    IN  FileRec(len, EgonHead(magic, csum, spl_len, 1), 165, SPL_LEN_LIMIT, tail)

\* a mkimage header (big-endian): magic, hcrc, time, size, load, ep, dcrc,
\* os, arch, type, comp, name
ImageHead(magic, size, load, arch, type) ==
    BeBytes(magic) \o Zeros(8) \o BeBytes(W32Of(size)) \o BeBytes(W32Of(load))
        \o Zeros(8) \o <<17, arch, type, 0>> \o Zeros(IH_NMLEN)

\* u-boot-sunxi-with-spl.bin: an SPL padded to SPL_LEN_LIMIT, then the image
CombinedFile(size, load, magic, arch, type, extra) ==
    EgonFile(SPL_LEN_LIMIT + HEADER_SIZE + size + extra, Str_eGON_BT0, \h2000, 0,
             ImageHead(magic, size, load, arch, type))

\* the address at which the wrapping image is loaded
TopAddr == AddrSpace - \h1000

FileData ==
    (   "spl"        :> EgonFile(\h6400, Str_eGON_BT0, \h6400, 0, <<>>)
     @@ "spl-max"    :> EgonFile(\h8000, Str_eGON_BT0, \h8000, 0, <<>>)
     @@ "spl-6000"   :> EgonFile(\h6000, Str_eGON_BT0, \h6000, 0, <<>>)
     @@ "spl-short"  :> FileRec(16, <<16, 0, 0, 234>> \o Str_eGON_BT0, 0, 0, <<>>)
     @@ "spl-magic"  :> EgonFile(\h200, <<101, 71, 79, 78, 46, 66, 84, 49>>, \h200, 0, <<>>)
     @@ "spl-long"   :> EgonFile(\h200, Str_eGON_BT0, \h400, 0, <<>>)
     @@ "spl-odd"    :> EgonFile(\h200, Str_eGON_BT0, \h1FE, 0, <<>>)
     @@ "spl-sum"    :> EgonFile(\h200, Str_eGON_BT0, \h200, 1, <<>>)
     @@ "uboot"      :> CombinedFile(\h80000, \h0A000000, IH_MAGIC, IH_ARCH_ARM, IH_TYPE_FIRMWARE, 0)
     @@ "uboot-sram" :> CombinedFile(\h1000, \h1000, IH_MAGIC, IH_ARCH_ARM, IH_TYPE_FIRMWARE, 0)
     @@ "uboot-top"  :> CombinedFile(\h2000, TopAddr, IH_MAGIC, IH_ARCH_ARM, IH_TYPE_FIRMWARE, 0)
     @@ "uboot-magic" :> CombinedFile(\h1000, \h0A000000, W32(\h2705, \h1957), IH_ARCH_ARM, IH_TYPE_FIRMWARE, 0)
     @@ "uboot-arch" :> CombinedFile(\h1000, \h0A000000, IH_MAGIC, 7, IH_TYPE_FIRMWARE, 0)
     @@ "uboot-type" :> CombinedFile(\h1000, \h0A000000, IH_MAGIC, IH_ARCH_ARM, IH_TYPE_SCRIPT, 0)
     @@ "uboot-size" :> CombinedFile(\h1000, \h0A000000, IH_MAGIC, IH_ARCH_ARM, IH_TYPE_FIRMWARE, 4)
     @@ "uboot-zero" :> CombinedFile(\h1000, 0, IH_MAGIC, IH_ARCH_ARM, IH_TYPE_FIRMWARE, 0)
     @@ "uboot-none" :> CombinedFile(0, \h0A000000, IH_MAGIC, IH_ARCH_ARM, IH_TYPE_FIRMWARE, 0)
     @@ "data"       :> FileRec(\h100, <<>>, 90, 0, <<>>)
     @@ "boot.scr"   :> FileRec(HEADER_SIZE + \h80,
                                ImageHead(IH_MAGIC, \h80, 0, IH_ARCH_ARM, IH_TYPE_SCRIPT),
                                35, 0, <<>>)
     @@ "uEnv.txt"   :> FileRec(\h40, Str_uEnv, 10, 0, <<>>)
     @@ "uEnv-6"     :> FileRec(6, Str_uEnv, 0, 0, <<>>)
     @@ "empty"      :> FileRec(0, <<>>, 0, 0, <<>>)
    )

FileNames == DOMAIN FileData

\* the files given to spl / uboot, and to the write commands
SplFileNames ==
    { "spl", "spl-max", "spl-6000", "spl-short", "spl-magic", "spl-long", "spl-odd", "spl-sum",
      "uboot", "uboot-sram", "uboot-top", "uboot-magic", "uboot-arch", "uboot-type",
      "uboot-size", "uboot-zero", "uboot-none", "data" }

WriteFileNames == { "data", "boot.scr", "uEnv.txt", "uEnv-6", "empty", "spl-short" }

\* a buffer: a pointer into the bytes of a loaded file
Buf(name, off) == [name |-> name, off |-> off]

BufAdd(buf, n) == [buf EXCEPT !.off = @ + n]

B(buf, i) == ByteAt(FileData[buf.name], buf.off + i)

Bytes(buf, i, n) == [k \in 1..n |-> B(buf, i + k - 1)]

\* le32toh() and be32toh() of word i of a byte sequence
le32_of(b, i) == W32(b[4*i + 3] + 256 * b[4*i + 4], b[4*i + 1] + 256 * b[4*i + 2])

be32_of(b, i) == W32(256 * b[4*i + 1] + b[4*i + 2], 256 * b[4*i + 3] + b[4*i + 4])

\* le32toh(buf32[i]) and be32toh(buf32[i])
le32(buf, i) == le32_of(Bytes(buf, 4 * i, 4), 0)

be32(buf, i) == be32_of(Bytes(buf, 4 * i, 4), 0)

\* load_file(): the buffer and its size
load_file(name) == [buf |-> Buf(name, 0), size |-> FileData[name].len]

(***************************************************************************)
(* Command-line tokens.  strtoul(s, NULL, 0) of the numeric tokens; any    *)
(* other token converts to 0.                                              *)
(***************************************************************************)
TokVal ==
    (   "0"          :> 0
     @@ "0x10"       :> \h10
     @@ "0x100"      :> \h100
     @@ "0x1000"     :> \h1000
     @@ "0x9FFFF00"  :> \h09FFFF00
     @@ "0xA000000"  :> \h0A000000
     @@ "0xA040000"  :> \h0A040000
     @@ "0xA080000"  :> \h0A080000
     @@ "top+0x800"  :> TopAddr + \h800
     @@ "0xAB"       :> 171
     @@ "1"          :> 1
     @@ "2"          :> 2
    )

strtoul(tok) == IF tok \in DOMAIN TokVal THEN TokVal[tok] ELSE 0

AddrToks == { "0x1000", "0x9FFFF00", "0xA000000", "0xA040000", "0xA080000", "top+0x800" }

LenToks == { "0x10", "0x100" }

ValToks == { "0xAB" }

CountToks == { "1", "2" }

\* the pairs given to the multiwrite commands
MultiAddrToks == { "0x1000", "0xA040000", "top+0x800" }

MultiFileNames == { "data", "boot.scr", "empty" }

(***************************************************************************)
(* FEL operations as the command handlers issue them.  A handler threads a *)
(* record st through its calls:                                            *)
(*   log         the FEL operations issued so far by this handler          *)
(*   status      "running", "exited" (exit() was called) or "crashed"      *)
(*   exit_code   the argument of exit()                                    *)
(*   soc         the cached result of aw_fel_get_soc_info() (NULL = 0)     *)
(*   uboot_entry, uboot_size   the globals of that name                    *)
(*   cp          the target's SCTLR, DACR, TTBCR and TTBR0                 *)
(*   tt          the translation table held: "NULL", "backup", "generated" *)
(* A call on a record that is no longer running changes nothing.  The code *)
(* that follows a call in the source is an operator applied to the record  *)
(* the call returns.                                                       *)
(***************************************************************************)
FelOp(op, addr, len, tag, args) ==
    [op |-> op, addr |-> addr, len |-> len, tag |-> tag, args |-> args]

Emit(st, e) ==
    IF st.status = "running" THEN [st EXCEPT !.log = Append(@, e)] ELSE st

exit(st, code) ==
    IF st.status = "running"
    THEN [st EXCEPT !.status = "exited", !.exit_code = code]
    ELSE st

\* a NULL pointer is dereferenced: the process is killed by a signal
crash(st) ==
    IF st.status = "running" THEN [st EXCEPT !.status = "crashed"] ELSE st

aw_fel_get_version(st) == Emit(st, FelOp("VERSION", 0, FEL_VERSION_SIZE, "version", <<>>))

aw_fel_read(st, offset, len, tag) == Emit(st, FelOp("READ", offset, len, tag, <<>>))

aw_fel_write(st, tag, args, offset, len) == Emit(st, FelOp("WRITE", offset, len, tag, args))

aw_fel_execute(st, offset) == Emit(st, FelOp("EXEC", offset, 0, "exec", <<>>))

\* the safeguard of aw_write_buffer()
overlaps_uboot(st, offset, len) ==
    /\ st.uboot_size > 0
    /\ offset <= U32(st.uboot_entry + st.uboot_size)
    /\ offset + len >= st.uboot_entry

aw_write_buffer(st, tag, args, offset, len) ==
    IF overlaps_uboot(st, offset, len) THEN exit(st, 1)
    ELSE Emit(st, FelOp("WRITE", offset, len, tag, args))

aw_fel_fill(st, offset, size, value) == aw_write_buffer(st, "fill", <<value>>, offset, size)

\* a lookup that asks the device on every call: the faulty variant the
\* caching property is tried against
aw_fel_get_soc_info_uncached(st, soc_id) ==
    IF st.status # "running" THEN st
    ELSE [aw_fel_get_version(st) EXCEPT !.soc = get_soc_info_from_version(soc_id)]

\* the record is resolved by one VERSION probe and cached while non-NULL
aw_fel_get_soc_info(st, soc_id) ==
    IF st.status # "running" \/ st.soc # NULL THEN st
    ELSE [aw_fel_get_version(st) EXCEPT !.soc = get_soc_info_from_version(soc_id)]

\* the header fields of a mkimage image, from the first 32 bytes of it
image_type(len, hdr) ==
    IF len <= HEADER_SIZE THEN IH_TYPE_INVALID
    ELSE IF be32_of(hdr, 0) # IH_MAGIC THEN IH_TYPE_INVALID
    ELSE IF hdr[30] # IH_ARCH_ARM THEN IH_TYPE_ARCH_MISMATCH
    ELSE hdr[31]

get_image_type(buf, len) == image_type(len, Bytes(buf, 0, 32))

is_uEnv(buf, size) ==
    IF size <= 6 THEN FALSE ELSE Bytes(buf, 0, 6) = Str_uEnv

(***************************************************************************)
(* The ARM thunk generator.                                                *)
(***************************************************************************)
CpRegs == { "sctlr", "dacr", "ttbcr", "ttbr0" }

\* coproc, opc1, crn, crm and opc2 of the four registers
CpEnc(reg) ==
    CASE reg = "sctlr" -> <<15, 0, 1, 0, 0>>
      [] reg = "dacr"  -> <<15, 0, 3, 0, 0>>
      [] reg = "ttbcr" -> <<15, 0, 2, 0, 2>>
      [] reg = "ttbr0" -> <<15, 0, 2, 0, 0>>

\* the value read is st.cp[reg]
aw_read_arm_cp_reg(st, soc, reg) ==
    aw_fel_read(
        aw_fel_execute(aw_fel_write(st, "mrc", CpEnc(reg), soc.scratch_addr, 12),
                       soc.scratch_addr),
        soc.scratch_addr + 12, 4, "cp_reg")

\* the target's register after the uploaded code has run
set_cp(st, reg, val) ==
    IF st.status = "running" THEN [st EXCEPT !.cp[reg] = val] ELSE st

aw_write_arm_cp_reg(st, soc, reg, val) ==
    set_cp(aw_fel_execute(aw_fel_write(st, "mcr", CpEnc(reg) \o <<val>>,
                                       soc.scratch_addr, 24),
                          soc.scratch_addr),
           reg, val)

\* the thunk written and its result read, with no EXEC in between
readl_n_thunk_noexec(a, addr, n) ==
    IF a.status # "running" THEN a
    ELSE IF a.soc = NULL THEN crash(a)
    ELSE aw_fel_read(
             aw_fel_write(a, "readl_n", <<addr, n>>,
                          soc_info_table[a.soc].scratch_addr, LCODE_ARM_SIZE),
             soc_info_table[a.soc].scratch_addr + LCODE_ARM_SIZE, 4 * n, "readl_n")

\* aw_fel_readl_n() from the use of soc_info on
readl_n_thunk(a, addr, n) ==
    IF a.status # "running" THEN a
    ELSE IF a.soc = NULL THEN crash(a)
    ELSE aw_fel_read(
             aw_fel_execute(
                 aw_fel_write(a, "readl_n", <<addr, n>>,
                              soc_info_table[a.soc].scratch_addr, LCODE_ARM_SIZE),
                 soc_info_table[a.soc].scratch_addr),
             soc_info_table[a.soc].scratch_addr + LCODE_ARM_SIZE, 4 * n, "readl_n")

\* a read that takes the word count as it is given: the faulty variant
\* the bound of the scratch area is tried against
aw_fel_readl_n_untruncated(st, soc_id, addr, count) ==
    IF count = 0 THEN st
    ELSE readl_n_thunk(aw_fel_get_soc_info(st, soc_id), addr, count)

aw_fel_readl_n(st, soc_id, addr, count) ==
    IF count = 0 THEN st
    ELSE readl_n_thunk(aw_fel_get_soc_info(st, soc_id), addr, Min(count, LCODE_MAX_WORDS))

aw_fel_readl(st, soc_id, addr) == aw_fel_readl_n(st, soc_id, addr, 1)

\* aw_fel_writel_n() from the use of soc_info on
writel_n_thunk(a, addr, src, n) ==
    IF a.status # "running" THEN a
    ELSE IF a.soc = NULL THEN crash(a)
    ELSE aw_fel_execute(
             aw_fel_write(a, "writel_n", <<addr, n>> \o SubSeq(src, 1, n),
                          soc_info_table[a.soc].scratch_addr, (LCODE_ARM_WORDS + n) * 4),
             soc_info_table[a.soc].scratch_addr)

aw_fel_writel_n(st, soc_id, addr, src, count) ==
    IF count = 0 THEN st
    ELSE writel_n_thunk(aw_fel_get_soc_info(st, soc_id), addr, src,
                        Min(count, LCODE_MAX_WORDS))

aw_fel_writel(st, soc_id, addr, val) == aw_fel_writel_n(st, soc_id, addr, <<val>>, 1)

\* aw_fel_print_sid() from the use of soc_info on
print_sid_soc(a, soc_id) ==
    IF a.status # "running" THEN a
    ELSE IF a.soc = NULL THEN crash(a)
    ELSE IF soc_info_table[a.soc].sid_addr # 0
         THEN aw_fel_readl_n(a, soc_id, soc_info_table[a.soc].sid_addr, 4)
         ELSE a

aw_fel_print_sid(st, soc_id) == print_sid_soc(aw_fel_get_soc_info(st, soc_id), soc_id)

aw_enable_l2_cache(st, soc) ==
    aw_fel_execute(aw_fel_write(st, "l2en", <<>>, soc.scratch_addr, 16), soc.scratch_addr)

aw_get_stackinfo(st, soc) ==
    aw_fel_read(
        aw_fel_execute(aw_fel_write(st, "stackinfo", <<>>, soc.scratch_addr, 36),
                       soc.scratch_addr),
        soc.scratch_addr + 36, 8, "stackinfo")

\* a request that uploads the code and does not run it: the faulty variant
\* the reset property is tried against
rmr_request_soc_idle(a, entry_point, rmr_mode) ==
    IF a.status # "running" THEN a
    ELSE IF a.soc = NULL THEN crash(a)
    ELSE IF soc_info_table[a.soc].rvbar_reg = 0 THEN a
    ELSE aw_fel_write(a, "rmr",
                      <<soc_info_table[a.soc].rvbar_reg, entry_point, rmr_mode>>,
                      soc_info_table[a.soc].scratch_addr, 60)

\* aw_rmr_request() from the use of soc_info on
rmr_request_soc(a, entry_point, rmr_mode) ==
    IF a.status # "running" THEN a
    ELSE IF a.soc = NULL THEN crash(a)
    ELSE IF soc_info_table[a.soc].rvbar_reg = 0 THEN a
    ELSE aw_fel_execute(
             aw_fel_write(a, "rmr",
                          <<soc_info_table[a.soc].rvbar_reg, entry_point, rmr_mode>>,
                          soc_info_table[a.soc].scratch_addr, 60),
             soc_info_table[a.soc].scratch_addr)

aw_rmr_request(st, soc_id, entry_point, aarch64) ==
    rmr_request_soc(aw_fel_get_soc_info(st, soc_id), entry_point,
                    2 + (IF aarch64 THEN 1 ELSE 0))

(***************************************************************************)
(* What the target answers during one run of the SPL loader: its MMU       *)
(* registers, the translation table found at TTBR0 and the eight bytes     *)
(* found at spl_addr + 4 after the thunk has run.  A table is described by *)
(* the low 20 bits shared by its entries and one deviating entry (none if  *)
(* bad_i = -1); entry i is the pair (bits 31..20, bits 19..0).             *)
(***************************************************************************)
TT_ENTRIES == 4096

DevTable(low, bad_i, bad_sec, bad_low) ==
    [low |-> low, bad_i |-> bad_i, bad_sec |-> bad_sec, bad_low |-> bad_low]

TTEntry(t, i) ==
    IF i = t.bad_i THEN [sec |-> t.bad_sec, low |-> t.bad_low]
    ELSE [sec |-> i, low |-> t.low]

BromTable == DevTable(\hDE2, -1, 0, 0)

MmuRec(sctlr, dacr, ttbcr, ttbr0, table) ==
    [sctlr |-> sctlr, dacr |-> dacr, ttbcr |-> ttbcr, ttbr0 |-> ttbr0, table |-> table]

SCTLR_BROM == \hC50038
DACR_BROM  == \h5555 * 65536 + \h5555

MmuProfiles ==
    "off"       :> MmuRec(SCTLR_BROM + \h1000, 0, 0, 0, BromTable)
 @@ "on"        :> MmuRec(SCTLR_BROM + \h1801, DACR_BROM, 0, \h20000, BromTable)
 \* a table whose entries hold TEX, C and B bits already
 @@ "on-texcb"  :> MmuRec(SCTLR_BROM + \h1801, DACR_BROM, 0, \h24000,
                          DevTable(\h6DEE, -1, 0, 0))
 @@ "bad-sctlr" :> MmuRec(SCTLR_BROM - 8 + 1, DACR_BROM, 0, \h20000, BromTable)
 @@ "bad-dacr"  :> MmuRec(SCTLR_BROM + 1, DACR_BROM - 1, 0, \h20000, BromTable)
 @@ "bad-ttbcr" :> MmuRec(SCTLR_BROM + 1, DACR_BROM, 1, \h20000, BromTable)
 @@ "bad-ttbr0" :> MmuRec(SCTLR_BROM + 1, DACR_BROM, 0, \h20040, BromTable)
 @@ "bad-sect"  :> MmuRec(SCTLR_BROM + 1, DACR_BROM, 0, \h20000,
                          DevTable(\hDE2, 5, 5, \hDE1))
 @@ "bad-xn"    :> MmuRec(SCTLR_BROM + 1, DACR_BROM, 0, \h20000,
                          DevTable(\hDE2, 4095, 4095, \h40DE2))
 @@ "bad-map"   :> MmuRec(SCTLR_BROM + 1, DACR_BROM, 0, \h20000,
                          DevTable(\hDE2, 7, 8, \hDE2))

MmuNames == DOMAIN MmuProfiles

Handshakes ==
    "fel" :> Str_eGON_FEL
 @@ "bt0" :> Str_eGON_BT0
 @@ "nul" :> <<101, 71, 79, 78, 0, 70, 69, 76>>

HandshakeNames == DOMAIN Handshakes

\* sctlr & ~((0x7 << 11) | (1 << 6) | 1)
sctlr_masked(sctlr) ==
    sctlr - Bit(sctlr, 0) - Bit(sctlr, 6) * 64 - Bit(sctlr, 11) * 2048
          - Bit(sctlr, 12) * 4096 - Bit(sctlr, 13) * 8192

\* the two sanity checks on every entry of the table read back
tt_is_section(e) == Bit(e.low, 1) = 1 /\ Bit(e.low, 18) = 0

\* a check of the descriptor type alone: the faulty variant the table
\* property is tried against
tt_valid_sections_only(t) ==
    \A i \in 0 .. TT_ENTRIES - 1 : tt_is_section(TTEntry(t, i))

tt_valid(t) ==
    \A i \in 0 .. TT_ENTRIES - 1 :
        tt_is_section(TTEntry(t, i)) /\ TTEntry(t, i).sec = i

TTValid == [ m \in MmuNames |-> tt_valid(MmuProfiles[m].table) ]

\* a table with TEXCB = 00100 in every section: the faulty variant the
\* property of the generated entries is tried against
generated_tt_all_normal(i) == [sec |-> i, low |-> \h1DE2]

\* entry i of the table of aw_generate_mmu_translation_table()
generated_tt(i) ==
    [sec |-> i, low |-> IF i = 0 \/ i = TT_ENTRIES - 1 THEN \h1DE2 ELSE \hDE2]

\* clears bits M (0), Z (11) and I (12) of SCTLR as the uploaded code does
sctlr_disable(sctlr) ==
    sctlr - Bit(sctlr, 0) - Bit(sctlr, 11) * 2048 - Bit(sctlr, 12) * 4096

sctlr_enable(sctlr) == sctlr_disable(sctlr) + 1 + 2048 + 4096

\* aw_backup_and_disable_mmu() after the code that disables the MMU has run
backup_done(g) ==
    IF g.status # "running" THEN g
    ELSE [g EXCEPT !.tt = "backup", !.cp.sctlr = sctlr_disable(@)]

\* ... after the table has been read
backup_tt(e, soc, mmu) ==
    IF ~TTValid[mmu] THEN exit(e, 1)
    ELSE backup_done(aw_fel_execute(aw_fel_write(e, "mmu_off", <<>>, soc.scratch_addr, 24),
                                    soc.scratch_addr))

\* ... after TTBR0 has been read
backup_ttbr0(d, soc, mmu) ==
    IF d.cp.ttbr0 % 16384 # 0 THEN exit(d, 1)
    ELSE backup_tt(aw_fel_read(d, d.cp.ttbr0, 16 * 1024, "tt"), soc, mmu)

\* ... after TTBCR has been read
backup_ttbcr(c, soc, mmu) ==
    IF c.cp.ttbcr # 0 THEN exit(c, 1)
    ELSE backup_ttbr0(aw_read_arm_cp_reg(c, soc, "ttbr0"), soc, mmu)

\* a backup path that takes any DACR: the faulty variant the register
\* property is tried against
backup_dacr_unchecked(b, soc, mmu) ==
    backup_ttbcr(aw_read_arm_cp_reg(b, soc, "ttbcr"), soc, mmu)

\* ... after DACR has been read
backup_dacr(b, soc, mmu) ==
    IF b.cp.dacr # DACR_BROM THEN exit(b, 1)
    ELSE backup_ttbcr(aw_read_arm_cp_reg(b, soc, "ttbcr"), soc, mmu)

\* ... after SCTLR has been read
backup_sctlr(a, soc, mmu) ==
    IF sctlr_masked(a.cp.sctlr) # SCTLR_BROM THEN exit(a, 1)
    ELSE IF Bit(a.cp.sctlr, 0) = 0 THEN a
    ELSE backup_dacr(aw_read_arm_cp_reg(a, soc, "dacr"), soc, mmu)

\* mmu names the table the target holds at TTBR0
aw_backup_and_disable_mmu(st, soc, mmu) ==
    backup_sctlr(aw_read_arm_cp_reg(st, soc, "sctlr"), soc, mmu)

DRAM_BASE_SEC == \h400
DRAM_END_SEC  == \hC00

\* bits 19..0 with TEX (14..12), C (3) and B (2) cleared
texcb_cleared(low) ==
    low - Bit(low, 14) * 16384 - Bit(low, 13) * 8192 - Bit(low, 12) * 4096
        - Bit(low, 3) * 8 - Bit(low, 2) * 4

\* a restore that rewrites every entry as a DRAM entry: the faulty variant
\* the restore property is tried against
restored_tt_all_dram(e, i) == [e EXCEPT !.low = texcb_cleared(@) + 4096]

\* entry i of the table that aw_restore_and_enable_mmu() writes back
restored_tt(e, i) ==
    IF i >= DRAM_BASE_SEC /\ i < DRAM_END_SEC
    THEN [e EXCEPT !.low = texcb_cleared(@) + 4096]
    ELSE IF i = TT_ENTRIES - 1
    THEN [e EXCEPT !.low = texcb_cleared(@) + 4096 + 8 + 4]
    ELSE e

\* entry i of the table the loader holds: the one read back from the target
\* or the generated one
held_tt(kind, mmu, i) ==
    IF kind = "backup" THEN TTEntry(MmuProfiles[mmu].table, i) ELSE generated_tt(i)

\* entry i of the table uploaded by the FEL WRITE tagged "tt"
uploaded_tt(kind, mmu, i) == restored_tt(held_tt(kind, mmu, i), i)

\* the target after the code that enables the MMU has run
restore_done(d) ==
    IF d.status # "running" THEN d ELSE [d EXCEPT !.cp.sctlr = sctlr_enable(@)]

\* a restore that uploads the table and leaves the MMU off: the faulty
\* variant the property of the final MMU state is tried against
restore_tt_table_only(a, soc) ==
    aw_fel_write(a, "tt", <<a.tt>>, a.cp.ttbr0, 16 * 1024)

\* aw_restore_and_enable_mmu() after TTBR0 has been read
restore_tt(a, soc) ==
    restore_done(
        aw_fel_execute(
            aw_fel_write(aw_fel_write(a, "tt", <<a.tt>>, a.cp.ttbr0, 16 * 1024),
                         "mmu_on", <<>>, soc.scratch_addr, 48),
            soc.scratch_addr))

aw_restore_and_enable_mmu(st, soc) ==
    restore_tt(aw_read_arm_cp_reg(st, soc, "ttbr0"), soc)

(***************************************************************************)
(* The SPL loader.                                                         *)
(***************************************************************************)
\* le32toh(buf32[4]) from the first 32 bytes; a value beyond the modelled
\* width exceeds every file
spl_len_of(hdr) ==
    IF W32Fits(le32_of(hdr, 4)) THEN W32Val(le32_of(hdr, 4)) ELSE AddrSpace

spl_header_len(buf) == spl_len_of(Bytes(buf, 0, 32))

\* the sum of the first spl_len / 4 words of each file that declares a
\* length it can hold (the loop of lines 955-956, computed once per file)
SplWordsSum ==
    [ n \in FileNames |->
        IF FileData[n].len >= 32 /\ spl_header_len(Buf(n, 0)) <= FileData[n].len
        THEN FileWordsSum(FileData[n], 0, spl_header_len(Buf(n, 0)) \div 4)
        ELSE W32Zero ]

\* a loader that takes any checksum: the faulty variant the header
\* property is tried against
spl_checksum_unchecked(hdr, sum) == W32Zero

\* spl_checksum after the loop: 2 * buf32[3] - 0x5F0A6C39 - sum of the words
spl_checksum_of(hdr, sum) ==
    Sub32(Sub32(Add32(le32_of(hdr, 3), le32_of(hdr, 3)), EGON_STAMP), sum)

spl_checksum(buf) == spl_checksum_of(Bytes(buf, 0, 32), SplWordsSum[buf.name])

\* the tests of lines 941-961 on the first 32 bytes
spl_header_passes(len, hdr, sum) ==
    /\ len >= 32
    /\ SubSeq(hdr, 5, 12) = Str_eGON_BT0
    /\ spl_len_of(hdr) <= len
    /\ spl_len_of(hdr) % 4 = 0
    /\ spl_checksum_of(hdr, sum) = W32Zero

spl_header_ok(buf, len) ==
    spl_header_passes(len, Bytes(buf, 0, 32), SplWordsSum[buf.name])

\* The loop over the swap buffers.  r holds st, spl_len_limit (lim),
\* cur_addr (cur), the offset of buf into the file (off), len and i.
swap_limit(r, soc, sb) ==
    IF sb.buf2 >= soc.spl_addr /\ sb.buf2 < soc.spl_addr + r.lim
    THEN [r EXCEPT !.lim = sb.buf2 - soc.spl_addr]
    ELSE r

\* the part of the SPL that precedes buf1 goes to cur_addr
swap_before(r, sb) ==
    IF r.len > 0 /\ r.cur < sb.buf1
    THEN [r EXCEPT !.st  = aw_fel_write(@, "spl", <<r.off>>, r.cur,
                                        Min(sb.buf1 - r.cur, r.len)),
                   !.cur = @ + Min(sb.buf1 - r.cur, r.len),
                   !.off = @ + Min(sb.buf1 - r.cur, r.len),
                   !.len = @ - Min(sb.buf1 - r.cur, r.len)]
    ELSE r

\* a swap loop that leaves the swapped part where it is: the faulty
\* variant the placement property is tried against
swap_into_buf1(r, sb) ==
    IF r.len > 0 /\ r.cur = sb.buf1
    THEN [r EXCEPT !.st  = aw_fel_write(@, "spl", <<r.off>>, sb.buf1,
                                        Min(sb.size, r.len)),
                   !.cur = @ + Min(sb.size, r.len),
                   !.off = @ + Min(sb.size, r.len),
                   !.len = @ - Min(sb.size, r.len)]
    ELSE r

\* the part that falls into buf1 goes to buf2
swap_into(r, sb) ==
    IF r.len > 0 /\ r.cur = sb.buf1
    THEN [r EXCEPT !.st  = aw_fel_write(@, "spl", <<r.off>>, sb.buf2,
                                        Min(sb.size, r.len)),
                   !.cur = @ + Min(sb.size, r.len),
                   !.off = @ + Min(sb.size, r.len),
                   !.len = @ - Min(sb.size, r.len)]
    ELSE r

RECURSIVE swap_loop(_, _, _)
swap_loop(soc, r, i) ==
    IF soc.swap_buffers[i + 1].size = 0 THEN [r EXCEPT !.i = i]
    ELSE swap_loop(soc,
                   swap_into(swap_before(swap_limit(r, soc, soc.swap_buffers[i + 1]),
                                         soc.swap_buffers[i + 1]),
                             soc.swap_buffers[i + 1]),
                   i + 1)

\* lines 979-992: a table is generated when none was backed up
spl_generated(c) ==
    IF c.status # "running" THEN c ELSE [c EXCEPT !.tt = "generated"]

\* a loader that does not test the alignment of mmu_tt_addr: the faulty
\* variant the synthesis property is tried against
spl_generate_tt_unaligned(st, soc) ==
    IF st.status # "running" \/ st.tt # "NULL" \/ soc.mmu_tt_addr = 0 THEN st
    ELSE spl_generated(
             aw_write_arm_cp_reg(
                 aw_write_arm_cp_reg(aw_write_arm_cp_reg(st, soc, "dacr", DACR_BROM),
                                     soc, "ttbcr", 0),
                 soc, "ttbr0", soc.mmu_tt_addr))

spl_generate_tt(st, soc) ==
    IF st.status # "running" \/ st.tt # "NULL" \/ soc.mmu_tt_addr = 0 THEN st
    ELSE IF soc.mmu_tt_addr % 16384 # 0 THEN exit(st, 1)
    ELSE spl_generated(
             aw_write_arm_cp_reg(
                 aw_write_arm_cp_reg(aw_write_arm_cp_reg(st, soc, "dacr", DACR_BROM),
                                     soc, "ttbcr", 0),
                 soc, "ttbr0", soc.mmu_tt_addr))

\* a loader that does not compare the handshake: the faulty variant the
\* handshake property is tried against
spl_handshake_unchecked(d, soc, hs) ==
    IF d.status = "running" /\ d.tt # "NULL" THEN aw_restore_and_enable_mmu(d, soc)
    ELSE d

\* lines 1067-1074: the handshake has been read
spl_handshake(d, soc, hs) ==
    IF ~strcmp_eq(Handshakes[hs] \o <<0>>, Str_eGON_FEL \o <<0>>) THEN exit(d, 1)
    ELSE IF d.status = "running" /\ d.tt # "NULL" THEN aw_restore_and_enable_mmu(d, soc)
    ELSE d

\* the first n entries of a swap list as the words they are stored in
swap_words(swaps, n) ==
    [k \in 1 .. (3 * n) |->
        IF (k - 1) % 3 = 0 THEN swaps[((k - 1) \div 3) + 1].buf1
        ELSE IF (k - 1) % 3 = 1 THEN swaps[((k - 1) \div 3) + 1].buf2
        ELSE swaps[((k - 1) \div 3) + 1].size]

\* a thunk that is given the swap list without its last entry: the faulty
\* variant the payload property is tried against
spl_thunk_short_list(a, soc, hs, i) ==
    IF FEL_TO_SPL_THUNK_SIZE + 4 + (i + 1) * 12 > soc.thunk_size THEN exit(a, 1)
    ELSE spl_handshake(
             aw_fel_read(
                 aw_fel_execute(
                     aw_fel_write(a, "thunk",
                                  <<soc.spl_addr>> \o swap_words(soc.swap_buffers, i),
                                  soc.thunk_addr,
                                  FEL_TO_SPL_THUNK_SIZE + 4 + (i + 1) * 12),
                     soc.thunk_addr),
                 soc.spl_addr + 4, 8, "handshake"),
             soc, hs)

\* lines 1033-1067: the rest of the SPL has been written; the words that
\* follow fel_to_spl_thunk in thunk_buf are the arguments of the WRITE
spl_thunk(a, soc, hs, i) ==
    IF FEL_TO_SPL_THUNK_SIZE + 4 + (i + 1) * 12 > soc.thunk_size THEN exit(a, 1)
    ELSE spl_handshake(
             aw_fel_read(
                 aw_fel_execute(
                     aw_fel_write(a, "thunk",
                                  <<soc.spl_addr>> \o swap_words(soc.swap_buffers, i + 1),
                                  soc.thunk_addr,
                                  FEL_TO_SPL_THUNK_SIZE + 4 + (i + 1) * 12),
                     soc.thunk_addr),
                 soc.spl_addr + 4, 8, "handshake"),
             soc, hs)

\* a loader that refuses an SPL of exactly the limit: the faulty variant
\* the size property is tried against
spl_finish_strict(r, soc, hs, spl_len) ==
    IF spl_len >= (IF soc.thunk_addr < r.lim THEN soc.thunk_addr ELSE r.lim)
    THEN exit(r.st, 1)
    ELSE spl_thunk(IF r.len > 0 THEN aw_fel_write(r.st, "spl", <<r.off>>, r.cur, r.len)
                   ELSE r.st,
                   soc, hs, r.i)

\* lines 1020-1031: the size limit and the rest of the SPL
spl_finish(r, soc, hs, spl_len) ==
    IF spl_len > (IF soc.thunk_addr < r.lim THEN soc.thunk_addr ELSE r.lim)
    THEN exit(r.st, 1)
    ELSE spl_thunk(IF r.len > 0 THEN aw_fel_write(r.st, "spl", <<r.off>>, r.cur, r.len)
                   ELSE r.st,
                   soc, hs, r.i)

\* a loader that probes the stack before it enables the L2 cache
spl_upload_probe_first(a, soc, mmu, hs, buf, spl_len) ==
    spl_finish(
        swap_loop(soc,
                  [st  |-> spl_generate_tt(
                               aw_backup_and_disable_mmu(
                                   IF soc.needs_l2en
                                   THEN aw_enable_l2_cache(aw_get_stackinfo(a, soc), soc)
                                   ELSE aw_get_stackinfo(a, soc),
                                   soc, mmu),
                               soc),
                   lim |-> SPL_LEN_LIMIT, cur |-> soc.spl_addr, off |-> buf.off,
                   len |-> spl_len, i |-> 0],
                  0),
        soc, hs, spl_len)

\* lines 963-1018
spl_upload(a, soc, mmu, hs, buf, spl_len) ==
    spl_finish(
        swap_loop(soc,
                  [st  |-> spl_generate_tt(
                               aw_backup_and_disable_mmu(
                                   aw_get_stackinfo(
                                       IF soc.needs_l2en THEN aw_enable_l2_cache(a, soc)
                                       ELSE a,
                                       soc),
                                   soc, mmu),
                               soc),
                   lim |-> SPL_LEN_LIMIT, cur |-> soc.spl_addr, off |-> buf.off,
                   len |-> spl_len, i |-> 0],
                  0),
        soc, hs, spl_len)

\* lines 933-961.  ub is what the read through the NULL pointer at line 933
\* does when the SoC is unknown: "trap" (the process is killed) or "pass"
\* (the read does not fault, or is moved past the test of line 936).
spl_checked(a, ub, mmu, hs, buf, len, hdr) ==
    IF a.status # "running" THEN a
    ELSE IF a.soc = NULL THEN (IF ub = "trap" THEN crash(a) ELSE exit(a, 1))
    ELSE IF len < 32 \/ SubSeq(hdr, 5, 12) # Str_eGON_BT0 THEN exit(a, 1)
    ELSE IF spl_len_of(hdr) > len \/ spl_len_of(hdr) % 4 # 0 THEN exit(a, 1)
    ELSE IF spl_checksum_of(hdr, SplWordsSum[buf.name]) # W32Zero THEN exit(a, 1)
    ELSE spl_upload(a, soc_info_table[a.soc], mmu, hs, buf, spl_len_of(hdr))

\* buf is the start of a loaded file
aw_fel_write_and_execute_spl(st, soc_id, ub, mmu, hs, buf, len) ==
    spl_checked(aw_fel_get_soc_info(st, soc_id), ub, mmu, hs, buf, len, Bytes(buf, 0, 32))

\* aw_fel_write_uboot_image() after the write: the region is recorded
uboot_recorded(a, load_addr, data_size) ==
    IF a.status # "running" THEN a
    ELSE [a EXCEPT !.uboot_entry = load_addr, !.uboot_size = data_size]

\* the image written and recorded with its data size not compared with the
\* length of what follows the header
uboot_image_any_size(st, buf, len, hdr) ==
    IF st.status # "running" \/ len <= HEADER_SIZE THEN st
    ELSE IF image_type(len, hdr) <= IH_TYPE_INVALID THEN exit(st, 1)
    ELSE IF image_type(len, hdr) # IH_TYPE_FIRMWARE THEN exit(st, 1)
    ELSE uboot_recorded(
             aw_write_buffer(st, "uboot", <<buf.off + HEADER_SIZE>>,
                             W32Val(be32_of(hdr, 4)), W32Val(be32_of(hdr, 3))),
             W32Val(be32_of(hdr, 4)), W32Val(be32_of(hdr, 3)))

\* hdr holds the first 32 bytes of buf
uboot_image_checked(st, buf, len, hdr) ==
    IF st.status # "running" \/ len <= HEADER_SIZE THEN st
    ELSE IF image_type(len, hdr) <= IH_TYPE_INVALID THEN exit(st, 1)
    ELSE IF image_type(len, hdr) # IH_TYPE_FIRMWARE THEN exit(st, 1)
    ELSE IF W32Val(be32_of(hdr, 3)) # len - HEADER_SIZE THEN exit(st, 1)
    ELSE uboot_recorded(
             aw_write_buffer(st, "uboot", <<buf.off + HEADER_SIZE>>,
                             W32Val(be32_of(hdr, 4)), W32Val(be32_of(hdr, 3))),
             W32Val(be32_of(hdr, 4)), W32Val(be32_of(hdr, 3)))

aw_fel_write_uboot_image(st, buf, len) ==
    uboot_image_checked(st, buf, len, Bytes(buf, 0, 32))

\* aw_fel_process_spl_and_uboot() after the SPL loader has returned
process_uboot(a, f) ==
    IF f.size > SPL_LEN_LIMIT
    THEN aw_fel_write_uboot_image(a, BufAdd(f.buf, SPL_LEN_LIMIT), f.size - SPL_LEN_LIMIT)
    ELSE a

process_loaded(st, soc_id, ub, mmu, hs, f) ==
    process_uboot(aw_fel_write_and_execute_spl(st, soc_id, ub, mmu, hs, f.buf, f.size), f)

aw_fel_process_spl_and_uboot(st, soc_id, ub, mmu, hs, filename) ==
    process_loaded(st, soc_id, ub, mmu, hs, load_file(filename))

(***************************************************************************)
(* The hand-over of the boot script address and the file uploads.          *)
(***************************************************************************)
\* the four bytes the target holds at spl_addr + 0x14
SplSignatures ==
    "SPL1" :> Str_SPL \o <<1>>
 @@ "SPL0" :> Str_SPL \o <<0>>
 @@ "SPL2" :> Str_SPL \o <<2>>
 @@ "none" :> <<0, 0, 0, 0>>

SigNames == DOMAIN SplSignatures

\* the tests have_sunxi_spl() makes on the signature it has read
have_sunxi_spl(spl_signature) ==
    /\ SubSeq(spl_signature, 1, 3) = Str_SPL
    /\ ~(spl_signature[4] < SPL_MIN_VERSION)
    /\ ~(spl_signature[4] > SPL_MAX_VERSION)

\* pass_fel_information() after have_sunxi_spl() has read the signature
pass_fel_signature(b, spl_addr, sig, script_address, uEnv_length) ==
    IF have_sunxi_spl(SplSignatures[sig])
    THEN aw_fel_write(b, "handoff", <<script_address, uEnv_length>>, spl_addr + 24, 8)
    ELSE b

\* pass_fel_information() from the use of soc_info on; the FEL READ of
\* have_sunxi_spl() is logged with the name of the bytes the target returned
pass_fel_soc(a, sig, script_address, uEnv_length) ==
    IF a.status # "running" THEN a
    ELSE IF a.soc = NULL THEN crash(a)
    ELSE pass_fel_signature(
             Emit(a, FelOp("READ", soc_info_table[a.soc].spl_addr + 20, 4, "spl_sig",
                           <<sig>>)),
             soc_info_table[a.soc].spl_addr, sig, script_address, uEnv_length)

pass_fel_information(st, soc_id, sig, script_address, uEnv_length) ==
    pass_fel_soc(aw_fel_get_soc_info(st, soc_id), sig, script_address, uEnv_length)

\* file_upload(): the file has been written, and reported if it is a script
upload_uEnv(b, soc_id, sig, offset, f) ==
    IF is_uEnv(f.buf, f.size) THEN pass_fel_information(b, soc_id, sig, offset, f.size)
    ELSE b

\* the length of a script handed over like that of a uEnv file
upload_script_with_length(a, soc_id, sig, offset, f) ==
    upload_uEnv(IF get_image_type(f.buf, f.size) = IH_TYPE_SCRIPT
                THEN pass_fel_information(a, soc_id, sig, offset, f.size)
                ELSE a,
                soc_id, sig, offset, f)

\* file_upload(): the file has been written
upload_script(a, soc_id, sig, offset, f) ==
    upload_uEnv(IF get_image_type(f.buf, f.size) = IH_TYPE_SCRIPT
                THEN pass_fel_information(a, soc_id, sig, offset, 0)
                ELSE a,
                soc_id, sig, offset, f)

\* one iteration of the transfer loop of file_upload() on the loaded file f
upload_loaded(st, soc_id, sig, offset, f, filename) ==
    IF st.status # "running" \/ f.size = 0 THEN st
    ELSE upload_script(aw_write_buffer(st, "file", <<filename>>, offset, f.size),
                       soc_id, sig, offset, f)

\* argv[2i] is the address and argv[2i + 1] the file
upload_file(st, soc_id, sig, addr_tok, filename) ==
    upload_loaded(st, soc_id, sig, U32(strtoul(addr_tok)), load_file(filename), filename)

RECURSIVE upload_loop(_, _, _, _, _, _)
upload_loop(st, soc_id, sig, argv, i, count) ==
    IF i >= count THEN st
    ELSE upload_loop(upload_file(st, soc_id, sig, argv[2 * i + 1], argv[2 * i + 2]),
                     soc_id, sig, argv, i + 1, count)

\* argc and argv are those handed to file_upload(); the value returned is
\* count whenever the function returns
file_upload(st, soc_id, sig, count, argc, argv) ==
    IF argc < count * 2 THEN exit(st, 1)
    ELSE upload_loop(st, soc_id, sig, argv, 0, count)

(***************************************************************************)
(* main(): the state of the process.                                       *)
(***************************************************************************)
VARIABLES
    pc,                 \* "start", "options", "loop", "ran", "break", "end";
                        \* SpecUsb: "usb-idle", "usb-busy", "end"
    argc,               \* the argc of main()
    skip,               \* the skip of the command loop
    pflag_active,       \* -p was given
    status,             \* "running", "exited", "crashed", "aborted" or "returned"
    exit_code,          \* the exit status, -1 while there is none
    uboot_entry,        \* the global uboot_entry
    uboot_size,         \* the global uboot_size
    uboot_autostart,    \* the flag of main()
    soc_info,           \* the static result of aw_fel_get_soc_info()
    dev,                \* the SoC id the attached device reports
    claimed,            \* interface 0 of the device is claimed
    log,                \* the FEL operations of the command being run
    cmd,                \* that command and its arguments
    prev_entry,         \* uboot_entry and uboot_size when the command began
    prev_size,
    cp,                 \* the target's MMU registers during the command
    tt,                 \* the table the SPL loader holds
    fel,                \* SpecUsb: the FEL operation in progress
    fel_count,          \* SpecUsb: the FEL operations completed
    todo,               \* SpecUsb: the transfer loops it has still to run
    usb_log,            \* SpecUsb: the bulk transfers made so far
    mem,                \* SpecMem: the bytes of the target's memory written so far
    expect,             \* SpecMem: the word last put at an address by writel
    readl_val,          \* SpecMem: the value the last readl returned
    wl,                 \* SpecWords: the call of fel_readl_n() or fel_writel_n()
                        \* in progress
    armed,              \* a "uboot" command has completed with a U-Boot region
                        \* recorded and no "reset64" has run since
    prev_autostart      \* uboot_autostart when the command began

vars == << pc, argc, skip, pflag_active, status, exit_code, uboot_entry, uboot_size,
           uboot_autostart, soc_info, dev, claimed, log, cmd, prev_entry, prev_size,
           cp, tt, fel, fel_count, todo, usb_log, mem, expect, readl_val,
           wl, armed, prev_autostart >>

usb_vars == << fel, fel_count, todo, usb_log >>

mem_vars == << mem, expect, readl_val >>

hist_vars == << armed, prev_autostart >>

word_vars == << wl >>

NoCall == [fn |-> "none", addr |-> 0, off |-> 0, count |-> 0, calls |-> <<>>]

NoCmd == [kind |-> "none", args |-> <<>>]

NoFel == FelOp("none", 0, 0, "none", <<>>)

CpOf(m) == [sctlr |-> m.sctlr, dacr |-> m.dacr, ttbcr |-> m.ttbcr, ttbr0 |-> m.ttbr0]

CpIdle == CpOf(MmuProfiles["off"])

Init ==
    /\ pc = "start"
    /\ argc \in 1 .. MaxArgc
    /\ skip = 1
    /\ pflag_active = FALSE
    /\ status = "running"
    /\ exit_code = -1
    /\ uboot_entry = 0
    /\ uboot_size = 0
    /\ uboot_autostart = FALSE
    /\ soc_info = NULL
    /\ dev \in SocIds
    /\ claimed = FALSE
    /\ log = <<>>
    /\ cmd = NoCmd
    /\ prev_entry = 0
    /\ prev_size = 0
    /\ cp = CpIdle
    /\ tt = "NULL"
    /\ fel = NoFel
    /\ fel_count = 0
    /\ todo = <<>>
    /\ usb_log = <<>>
    /\ mem = <<>>
    /\ expect = <<>>
    /\ readl_val = "none"
    /\ wl = NoCall
    /\ armed = FALSE
    /\ prev_autostart = FALSE

\* the record a command handler starts from
St ==
    [log |-> <<>>, status |-> "running", exit_code |-> -1, soc |-> soc_info,
     uboot_entry |-> uboot_entry, uboot_size |-> uboot_size, cp |-> cp, tt |-> "NULL"]

\* One pass through the body of the command loop: the handler has produced
\* st; n is the value given to skip, autostart the new value of the flag,
\* next the place reached when the handler returns.
Ran(st, kind, args, n, autostart, next) ==
    /\ log' = st.log
    /\ status' = st.status
    /\ exit_code' = st.exit_code
    /\ soc_info' = st.soc
    /\ uboot_entry' = st.uboot_entry
    /\ uboot_size' = st.uboot_size
    /\ cp' = st.cp
    /\ tt' = st.tt
    /\ cmd' = [kind |-> kind, args |-> args]
    /\ prev_entry' = uboot_entry
    /\ prev_size' = uboot_size
    /\ prev_autostart' = uboot_autostart
    /\ armed' = IF st.status # "running" THEN armed
                ELSE IF kind = "reset64" THEN FALSE
                ELSE IF kind = "uboot" THEN armed \/ st.uboot_size > 0
                ELSE armed
    /\ skip' = IF st.status = "running" THEN n ELSE 1
    /\ uboot_autostart' = IF st.status = "running" THEN autostart ELSE uboot_autostart
    /\ pc' = IF st.status = "running" THEN next ELSE "end"
    /\ UNCHANGED << argc, pflag_active, dev, claimed, usb_vars, mem_vars, word_vars >>

\* argc <= 1: the usage text, exit(0)
Usage ==
    /\ pc = "start"
    /\ argc <= 1
    /\ status' = "exited"
    /\ exit_code' = 0
    /\ pc' = "end"
    /\ UNCHANGED << argc, skip, pflag_active, uboot_entry, uboot_size, uboot_autostart,
                    soc_info, dev, claimed, log, cmd, prev_entry, prev_size, cp, tt,
                    usb_vars, mem_vars, word_vars, hist_vars >>

\* one iteration of the loop over the prefix options -v and -p
Prefix ==
    /\ pc \in { "start", "options" }
    /\ argc > 1
    /\ \E opt \in { "-v", "-p" } :
          pflag_active' = (pflag_active \/ opt = "-p")
    /\ argc' = argc - 1
    /\ pc' = "options"
    /\ UNCHANGED << skip, status, exit_code, uboot_entry, uboot_size, uboot_autostart,
                    soc_info, dev, claimed, log, cmd, prev_entry, prev_size, cp, tt,
                    usb_vars, mem_vars, word_vars, hist_vars >>

\* the option loop is left; the device is opened and interface 0 claimed
Open ==
    /\ \/ pc = "start" /\ argc > 1
       \/ pc = "options"
    /\ claimed' = TRUE
    /\ pc' = "loop"
    /\ UNCHANGED << argc, skip, pflag_active, status, exit_code, uboot_entry,
                    uboot_size, uboot_autostart, soc_info, dev, log, cmd, prev_entry,
                    prev_size, cp, tt, usb_vars, mem_vars, word_vars, hist_vars >>

\* argc -= skip; argv += skip.  What was observed of the command is dropped.
LoopAdvance ==
    /\ pc = "ran"
    /\ argc' = argc - skip
    /\ pc' = "loop"
    /\ log' = <<>>
    /\ cmd' = NoCmd
    /\ prev_entry' = 0
    /\ prev_size' = 0
    /\ cp' = CpIdle
    /\ tt' = "NULL"
    /\ prev_autostart' = FALSE
    /\ UNCHANGED << skip, pflag_active, status, exit_code, uboot_entry, uboot_size,
                    uboot_autostart, soc_info, dev, claimed, usb_vars, mem_vars, word_vars, armed >>

\* after the loop: the autostart of U-Boot, the release of the interface
Finish ==
    /\ \/ pc = "loop" /\ argc <= 1
       \/ pc = "break"
    /\ log' = IF uboot_autostart THEN aw_fel_execute(St, uboot_entry).log ELSE <<>>
    /\ cmd' = [kind |-> "finish", args |-> <<>>]
    /\ prev_entry' = uboot_entry
    /\ prev_size' = uboot_size
    /\ claimed' = FALSE
    /\ status' = "returned"
    /\ exit_code' = 0
    /\ pc' = "end"
    /\ prev_autostart' = uboot_autostart
    /\ UNCHANGED << argc, skip, pflag_active, uboot_entry, uboot_size, uboot_autostart,
                    soc_info, dev, cp, tt, usb_vars, mem_vars, word_vars, armed >>

(***************************************************************************)
(* The commands.  argv[1] is the command word of the action; the tokens    *)
(* that follow it are chosen when the command runs.                        *)
(***************************************************************************)
InLoop == pc = "loop" /\ argc > 1

Hexdump ==
    /\ InLoop /\ argc > 3
    /\ \E a \in AddrToks, l \in LenToks :
          Ran(aw_fel_read(St, U32(strtoul(a)), strtoul(l), "hexdump"),
              "hex", <<a, l>>, 3, uboot_autostart, "ran")

Dump ==
    /\ InLoop /\ argc > 3
    /\ \E a \in AddrToks, l \in LenToks :
          Ran(aw_fel_read(St, U32(strtoul(a)), strtoul(l), "dump"),
              "dump", <<a, l>>, 3, uboot_autostart, "ran")

Readl ==
    /\ InLoop /\ argc > 2
    /\ \E a \in AddrToks :
          Ran(aw_fel_readl(St, dev, U32(strtoul(a))),
              "readl", <<a>>, 2, uboot_autostart, "ran")

Writel ==
    /\ InLoop /\ argc > 3
    /\ \E a \in AddrToks, v \in ValToks :
          Ran(aw_fel_writel(St, dev, U32(strtoul(a)), strtoul(v)),
              "writel", <<a, v>>, 3, uboot_autostart, "ran")

Exe ==
    /\ InLoop /\ argc > 2
    /\ \E a \in AddrToks :
          Ran(aw_fel_execute(St, U32(strtoul(a))),
              "exe", <<a>>, 3, uboot_autostart, "ran")

Reset64 ==
    /\ InLoop /\ argc > 2
    /\ \E a \in AddrToks :
          Ran(aw_rmr_request(St, dev, U32(strtoul(a)), TRUE),
              "reset64", <<a>>, 1, FALSE, "break")

Ver ==
    /\ InLoop
    /\ Ran(aw_fel_get_version(St), "ver", <<>>, 1, uboot_autostart, "ran")

Sid ==
    /\ InLoop
    /\ Ran(aw_fel_print_sid(St, dev), "sid", <<>>, 1, uboot_autostart, "ran")

WriteWords == { "write", "write-with-progress", "write-with-gauge", "write-with-xgauge" }

Write ==
    /\ InLoop /\ argc > 3
    /\ \E w \in WriteWords, a \in AddrToks, f \in WriteFileNames, sig \in SigNames :
          Ran(file_upload(St, dev, sig, 1, argc - 2, <<a, f>>),
              w, <<a, f>>, 1 + 2 * 1, uboot_autostart, "ran")

MultiWords == { "multiwrite", "multiwrite-with-gauge", "multiwrite-with-xgauge" }

\* the address and file pairs that follow the file count
RECURSIVE MultiArgs(_)
MultiArgs(n) ==
    IF n = 0 THEN { <<>> }
    ELSE { <<a, f>> \o rest : a \in MultiAddrToks, f \in MultiFileNames,
                              rest \in MultiArgs(n - 1) }

Multiwrite ==
    /\ InLoop /\ argc > 4
    /\ \E w \in MultiWords, c \in CountToks, sig \in SigNames :
          LET count == strtoul(c)
          IN  \E argv \in MultiArgs(Min(count, (argc - 3) \div 2)) :
                 Ran(file_upload(St, dev, sig, count, argc - 3, argv),
                     w, <<c>> \o argv, 2 + 2 * count, uboot_autostart, "ran")

EchoGauge ==
    /\ InLoop /\ argc > 2
    /\ Ran(St, "echo-gauge", <<>>, 2, uboot_autostart, "ran")

Read ==
    /\ InLoop /\ argc > 4
    /\ \E a \in AddrToks, l \in LenToks :
          Ran(aw_fel_read(St, U32(strtoul(a)), strtoul(l), "read"),
              "read", <<a, l>>, 4, uboot_autostart, "ran")

\* With argc = 3 the length is read from argv[3], the NULL that ends argv:
\* strtoul(NULL, ...) either kills the process or yields some number.
Clear ==
    /\ InLoop /\ argc > 2
    /\ \E a \in AddrToks, l \in LenToks, ub \in { "trap", "pass" } :
          /\ argc > 3 => ub = "pass"
          /\ Ran(IF ub = "trap" THEN crash(St)
                 ELSE aw_fel_fill(St, U32(strtoul(a)), strtoul(l), 0),
                 "clear", <<a, l, ub>>, 3, uboot_autostart, "ran")

\* With argc = 4 the value is read from argv[4], the NULL that ends argv.
Fill ==
    /\ InLoop /\ argc > 3
    /\ \E a \in AddrToks, l \in LenToks, v \in ValToks, ub \in { "trap", "pass" } :
          /\ argc > 4 => ub = "pass"
          /\ Ran(IF ub = "trap" THEN crash(St)
                 ELSE aw_fel_fill(St, U32(strtoul(a)), strtoul(l), strtoul(v) % 256),
                 "fill", <<a, l, v, ub>>, 4, uboot_autostart, "ran")

\* what the target does during one run of the SPL loader
SplRuns ==
    { [ub |-> u, mmu |-> m, hs |-> h] :
          u \in { "trap", "pass" }, m \in { "off", "on" }, h \in HandshakeNames }
    \cup { [ub |-> "pass", mmu |-> m, hs |-> "fel"] : m \in MmuNames }

SplStart(run) ==
    /\ InLoop /\ argc > 2
    /\ run \in SplRuns
    /\ run.ub = "trap" => get_soc_info_from_version(dev) = NULL /\ soc_info = NULL

Spl ==
    \E f \in SplFileNames, run \in SplRuns :
       /\ SplStart(run)
       /\ Ran(aw_fel_process_spl_and_uboot([St EXCEPT !.cp = CpOf(MmuProfiles[run.mmu])],
                                           dev, run.ub, run.mmu, run.hs, f),
              "spl", <<f, run>>, 2, uboot_autostart, "ran")

\* the "uboot" branch after aw_fel_process_spl_and_uboot() has returned
UbootRan(st, args) ==
    Ran(st, "uboot", args, 2, st.uboot_entry > 0 /\ st.uboot_size > 0, "ran")

Uboot ==
    \E f \in SplFileNames, run \in SplRuns :
       /\ SplStart(run)
       /\ UbootRan(aw_fel_process_spl_and_uboot(
                       [St EXCEPT !.cp = CpOf(MmuProfiles[run.mmu])],
                       dev, run.ub, run.mmu, run.hs, f),
                   <<f, run>>)

\* the least argc each command word needs to be taken
CommandArgc ==
    "hex" :> 3 @@ "dump" :> 3 @@ "readl" :> 2 @@ "writel" :> 3 @@ "exe" :> 2
 @@ "reset64" :> 2 @@ "write" :> 3 @@ "multiwrite" :> 4 @@ "echo-gauge" :> 2
 @@ "read" :> 4 @@ "clear" :> 2 @@ "fill" :> 3 @@ "spl" :> 2 @@ "uboot" :> 2

\* no branch of the chain takes argv[1]: "Invalid command", exit(1)
Invalid ==
    /\ InLoop
    /\ \E w \in { "bogus" } \cup { c \in DOMAIN CommandArgc : ~(argc > CommandArgc[c]) } :
          Ran(exit(St, 1), "invalid", <<w>>, 1, uboot_autostart, "ran")

Next ==
    \/ Usage \/ Prefix \/ Open \/ LoopAdvance \/ Finish
    \/ Hexdump \/ Dump \/ Readl \/ Writel \/ Exe \/ Reset64 \/ Ver \/ Sid
    \/ Write \/ Multiwrite \/ EchoGauge \/ Read \/ Clear \/ Fill \/ Spl \/ Uboot
    \/ Invalid

Spec == Init /\ [][Next]_vars

(***************************************************************************)
(* The layers below a FEL operation.  A function of the source is the      *)
(* sequence of transfer loops it runs; a loop is a record                  *)
(*   call       "usb_bulk_send" or "usb_bulk_recv"                         *)
(*   ep         the endpoint, "OUT" or "IN"                                *)
(*   length     the bytes the loop has to move, left those still to move   *)
(*   max_chunk  the most it asks of one libusb_bulk_transfer()             *)
(*   part       "request" (the AWUC block), "data" or "response"           *)
(*   usb        AW_USB_WRITE or AW_USB_READ, the transaction it is part of *)
(*   announced  the length that transaction's request announces            *)
(*   stage      "request", "payload" or "status" of the FEL operation      *)
(*   req        the struct aw_usb_request sent, for part "request"         *)
(*   fel_req    the struct aw_fel_request sent, for the data of a request  *)
(***************************************************************************)
AW_USB_REQUEST_SIZE == 32

AW_USB_RESPONSE_SIZE == 13

AW_FEL_REQUEST_SIZE == 16

AW_FEL_STATUS_SIZE == 8

PROGRESS_CHUNK == 128 * 1024

NoReq == [signature |-> <<>>, request |-> 0, length |-> 0, unknown1 |-> 0, length2 |-> 0]

NoFelReq == [request |-> 0, address |-> 0, length |-> 0]

Loop(call, ep, length, max_chunk, part) ==
    [call |-> call, ep |-> ep, length |-> length, left |-> length,
     max_chunk |-> max_chunk, part |-> part, usb |-> 0, announced |-> 0,
     stage |-> "none", req |-> NoReq, fel_req |-> NoFelReq]

\* while (length > 0): no transfer at all for an empty buffer
usb_bulk_send(ep, length, progress, part) ==
    IF length > 0
    THEN << Loop("usb_bulk_send", ep, length,
                 IF progress THEN PROGRESS_CHUNK ELSE AW_USB_MAX_BULK_SEND, part) >>
    ELSE <<>>

usb_bulk_recv(ep, length, part) ==
    IF length > 0 THEN << Loop("usb_bulk_recv", ep, length, length, part) >> ELSE <<>>

\* the loops of one AW-USB transaction carry its sub-request and length
InUsb(loops, type, len) ==
    [ i \in DOMAIN loops |-> [loops[i] EXCEPT !.usb = type, !.announced = len] ]

InStage(loops, stage) ==
    [ i \in DOMAIN loops |-> [loops[i] EXCEPT !.stage = stage] ]

Str_AWUC == <<65, 87, 85, 67>>

UNKNOWN1 == \hC00 * 65536

WithReq(loops, req) == [ i \in DOMAIN loops |-> [loops[i] EXCEPT !.req = req] ]

\* a request that announces no data: the faulty variant the framing
\* property is tried against
aw_send_usb_request_empty(type, length) ==
    WithReq(usb_bulk_send("OUT", AW_USB_REQUEST_SIZE, FALSE, "request"),
            [signature |-> Str_AWUC, request |-> type, length |-> 0,
             unknown1 |-> UNKNOWN1, length2 |-> 0])

aw_send_usb_request(type, length) ==
    WithReq(usb_bulk_send("OUT", AW_USB_REQUEST_SIZE, FALSE, "request"),
            [signature |-> Str_AWUC, request |-> type, length |-> length,
             unknown1 |-> UNKNOWN1, length2 |-> length])

aw_read_usb_response == usb_bulk_recv("IN", AW_USB_RESPONSE_SIZE, "response")

aw_usb_write(len, progress) ==
    InUsb(aw_send_usb_request(AW_USB_WRITE, len)
              \o usb_bulk_send("OUT", len, progress, "data")
              \o aw_read_usb_response,
          AW_USB_WRITE, len)

\* a read framed as a write: the faulty variant the transaction count is
\* tried against
aw_usb_read_as_write(len) == aw_usb_write(len, FALSE)

aw_usb_read(len) ==
    InUsb(aw_send_usb_request(AW_USB_READ, len)
              \o usb_bulk_send("IN", len, FALSE, "data")
              \o aw_read_usb_response,
          AW_USB_READ, len)

WithFelReq(loops, r) ==
    [ i \in DOMAIN loops |->
        IF loops[i].part = "data" THEN [loops[i] EXCEPT !.fel_req = r] ELSE loops[i] ]

aw_send_fel_request(type, addr, length) ==
    InStage(WithFelReq(aw_usb_write(AW_FEL_REQUEST_SIZE, FALSE),
                       [request |-> type, address |-> addr, length |-> length]),
            "request")

aw_read_fel_status == InStage(aw_usb_read(AW_FEL_STATUS_SIZE), "status")

\* the bodies of aw_fel_get_version(), aw_fel_read(), aw_fel_write(),
\* aw_fel_execute() and of aw_write_buffer() past its safeguard
FelTransfers(e, progress) ==
    CASE e.op = "VERSION" ->
            aw_send_fel_request(AW_FEL_VERSION, 0, 0)
                \o InStage(aw_usb_read(FEL_VERSION_SIZE), "payload")
                \o aw_read_fel_status
      [] e.op = "READ" ->
            aw_send_fel_request(AW_FEL_1_READ, e.addr, e.len)
                \o InStage(aw_usb_read(e.len), "payload")
                \o aw_read_fel_status
      [] e.op = "WRITE" ->
            aw_send_fel_request(AW_FEL_1_WRITE, e.addr, e.len)
                \o InStage(aw_usb_write(e.len, progress), "payload")
                \o aw_read_fel_status
      [] e.op = "EXEC" ->
            aw_send_fel_request(AW_FEL_1_EXEC, e.addr, 0)
                \o aw_read_fel_status

\* the 13 bytes a status reply may hold
UsbResponses ==
    "ok"     :> Str_AWUS \o Zeros(9)
 @@ "tagged" :> Str_AWUS \o <<7>> \o Zeros(8)
 @@ "bad"    :> Str_AWUC \o Zeros(9)

ResponseNames == DOMAIN UsbResponses

\* assert(strcmp(buf, "AWUS") == 0) on the 13 bytes received
response_ok(buf) == strcmp_eq(buf, Str_AWUS \o <<0>>)

(***************************************************************************)
(* The transfers of FEL operations, one libusb_bulk_transfer() at a time.  *)
(* fel is the operation in progress, todo the loops it has still to run,   *)
(* usb_log the transfers it has made, fel_count the operations completed.  *)
(***************************************************************************)
MaxShort == 1

UsbAddrs == { \h2000, \h0A000000 }

UsbLens == { 0, 4, 16, 5 * PROGRESS_CHUNK }

InitUsb ==
    /\ pc = "usb-idle"
    /\ argc = 1
    /\ skip = 1
    /\ pflag_active = FALSE
    /\ status = "running"
    /\ exit_code = -1
    /\ uboot_entry = 0
    /\ uboot_size = 0
    /\ uboot_autostart = FALSE
    /\ soc_info = NULL
    /\ dev = soc_info_table[1].soc_id
    /\ claimed = TRUE
    /\ log = <<>>
    /\ cmd = NoCmd
    /\ prev_entry = 0
    /\ prev_size = 0
    /\ cp = CpIdle
    /\ tt = "NULL"
    /\ fel = NoFel
    /\ fel_count = 0
    /\ todo = <<>>
    /\ usb_log = <<>>
    /\ mem = <<>>
    /\ expect = <<>>
    /\ readl_val = "none"
    /\ wl = NoCall
    /\ armed = FALSE
    /\ prev_autostart = FALSE

main_vars == << argc, skip, pflag_active, uboot_entry, uboot_size, uboot_autostart,
                soc_info, dev, claimed, log, cmd, prev_entry, prev_size, cp, tt,
                mem_vars, hist_vars, word_vars >>

\* a FEL function is entered: its transfers are all still to make
UsbBegin(st, progress) ==
    /\ pc = "usb-idle"
    /\ fel_count < MaxFelOps
    /\ st.log # <<>>
    /\ fel' = st.log[1]
    /\ todo' = FelTransfers(st.log[1], progress)
    /\ usb_log' = <<>>
    /\ pc' = "usb-busy"
    /\ UNCHANGED << status, exit_code, fel_count, main_vars >>

UsbGetVersion == UsbBegin(aw_fel_get_version(St), FALSE)

UsbRead == \E a \in UsbAddrs, l \in UsbLens : UsbBegin(aw_fel_read(St, a, l, "read"), FALSE)

UsbWrite ==
    \E a \in UsbAddrs, l \in UsbLens :
        UsbBegin(aw_fel_write(St, "write", <<>>, a, l), FALSE)

UsbExecute == \E a \in UsbAddrs : UsbBegin(aw_fel_execute(St, a), FALSE)

UsbWriteBuffer ==
    \E a \in UsbAddrs, l \in UsbLens, progress \in BOOLEAN :
        UsbBegin(aw_write_buffer(St, "file", <<"data">>, a, l), progress)

ShortCount == Cardinality({ i \in DOMAIN usb_log : usb_log[i].sent < usb_log[i].chunk })

\* what one libusb_bulk_transfer() asked for chunk bytes may move
Moved(chunk) ==
    { chunk } \cup (IF ShortCount < MaxShort /\ chunk > 1 THEN { chunk \div 2 } ELSE {})

Transfer(l, chunk, sent) ==
    [n |-> fel_count, op |-> fel.op, stage |-> l.stage, usb |-> l.usb, announced |-> l.announced,
     part |-> l.part, call |-> l.call, ep |-> l.ep, chunk |-> chunk, sent |-> sent,
     first |-> (l.left = l.length), last |-> (l.left = sent), reply |-> "none", req |-> l.req, fel_req |-> l.fel_req]

\* a loop left after one transfer, complete or not: the faulty variant the
\* ordering property is tried against
AdvanceOnce(l, sent) == Tail(todo)

\* the loop at the head of todo after sent bytes were moved
Advance(l, sent) ==
    IF l.left - sent > 0
    THEN << [l EXCEPT !.left = l.left - sent] >> \o Tail(todo)
    ELSE Tail(todo)

\* the transfer that completes a status reply has filled buf with it
Received(t, reply) ==
    IF t.part = "response" /\ t.last THEN [t EXCEPT !.reply = reply] ELSE t

\* one pass of the loop of usb_bulk_send() or usb_bulk_recv() with rc == 0;
\* the loop of aw_read_usb_response() is followed by its assert()
BulkStep(l, chunk) ==
    \E sent \in Moved(chunk), reply \in ResponseNames :
        /\ usb_log' = Append(usb_log, Received(Transfer(l, chunk, sent), reply))
        /\ todo' = Advance(l, sent)
        /\ IF l.part = "response" /\ l.left = sent /\ ~response_ok(UsbResponses[reply])
           THEN status' = "aborted" /\ pc' = "end"
           ELSE status' = status /\ pc' = pc
        /\ UNCHANGED << exit_code, fel, fel_count, main_vars >>

BulkTransfer ==
    /\ pc = "usb-busy"
    /\ todo # <<>>
    /\ BulkStep(Head(todo), Min(Head(todo).left, Head(todo).max_chunk))

\* rc != 0: usb_error(rc, ..., 2)
BulkError ==
    /\ pc = "usb-busy"
    /\ todo # <<>>
    /\ status' = "exited"
    /\ exit_code' = 2
    /\ pc' = "end"
    /\ UNCHANGED << fel, fel_count, todo, usb_log, main_vars >>

\* the FEL function returns
FelDone ==
    /\ pc = "usb-busy"
    /\ todo = <<>>
    /\ fel_count' = fel_count + 1
    /\ pc' = "usb-idle"
    /\ UNCHANGED << status, exit_code, fel, todo, usb_log, main_vars >>

NextUsb ==
    \/ UsbGetVersion \/ UsbRead \/ UsbWrite \/ UsbExecute \/ UsbWriteBuffer
    \/ BulkTransfer \/ BulkError \/ FelDone

SpecUsb == InitUsb /\ [][NextUsb]_vars

(***************************************************************************)
(* SpecMem: readl and writel against the memory of the target.  The target *)
(* stores the payload of a FEL WRITE, runs the word copy loop of the thunk *)
(* on a FEL EXEC, and a FEL READ returns the bytes at its address.  Memory *)
(* is kept byte by byte; a byte not written yet reads as zero.             *)
(***************************************************************************)
\* a read loop that copies no word: the faulty variant the round trip is
\* tried against
readl_arm_code_idle(addr, count) ==
    << W32(\he59f, \h0020), W32(\he28f, \h1024), W32(\he59f, \h201c),
       Add32(W32(\he352, 0), W32Of(LCODE_MAX_WORDS)),
       Add32(W32(\hc3a0, \h2000), W32Of(LCODE_MAX_WORDS)),
       W32(\he252, \h2001), W32(\h412f, \hff1e),
       W32(\he490, \h3004), W32(\he481, \h3004), W32(\heaff, \hfffa),
       W32Of(addr), W32Of(0) >>

\* arm_code[] of aw_fel_readl_n(), before htole32()
readl_arm_code(addr, count) ==
    << W32(\he59f, \h0020), W32(\he28f, \h1024), W32(\he59f, \h201c),
       Add32(W32(\he352, 0), W32Of(LCODE_MAX_WORDS)),
       Add32(W32(\hc3a0, \h2000), W32Of(LCODE_MAX_WORDS)),
       W32(\he252, \h2001), W32(\h412f, \hff1e),
       W32(\he490, \h3004), W32(\he481, \h3004), W32(\heaff, \hfffa),
       W32Of(addr), W32Of(count) >>

\* arm_code[] of aw_fel_writel_n() with the values of src behind the code
writel_arm_code(addr, count, src) ==
    << W32(\he59f, \h0020), W32(\he28f, \h1024), W32(\he59f, \h201c),
       Add32(W32(\he352, 0), W32Of(LCODE_MAX_WORDS)),
       Add32(W32(\hc3a0, \h2000), W32Of(LCODE_MAX_WORDS)),
       W32(\he252, \h2001), W32(\h412f, \hff1e),
       W32(\he491, \h3004), W32(\he480, \h3004), W32(\heaff, \hfffa),
       W32Of(addr), W32Of(count) >> \o src

\* htole32() of every word: the bytes as they are sent
htole32_n(words) ==
    [i \in 1..(4 * Len(words)) |-> LeBytes(words[((i - 1) \div 4) + 1])[((i - 1) % 4) + 1]]

\* the bytes a FEL WRITE of aw_fel_readl_n() or aw_fel_writel_n() carries
Payload(op) ==
    IF op.tag = "readl_n" THEN htole32_n(readl_arm_code(op.args[1], op.args[2]))
    ELSE IF op.tag = "writel_n"
         THEN htole32_n(writel_arm_code(op.args[1], op.args[2],
                                        SubSeq(op.args, 3, Len(op.args))))
    ELSE <<>>

Peek(m, a) == IF a \in DOMAIN m THEN m[a] ELSE 0

\* the little-endian word at byte address a
PeekWord(m, a) == le32_of([k \in 1..4 |-> Peek(m, U32(a + k - 1))], 0)

Store(m, a, bytes) ==
    [x \in DOMAIN m \cup { U32(a + k - 1) : k \in DOMAIN bytes } |->
        IF U32(x - a) < Len(bytes) THEN bytes[U32(x - a) + 1] ELSE m[x]]

\* the address a register holds, within the modelled address width
AddrOf(w) == (w[1] % (2 ^ (AddrBits - 16))) * 65536 + w[2]

\* the passes of the loop for the count word r2: cmp/movgt cap it at
\* LCODE_MAX_WORDS (signed), subs/bxmi return once it falls below zero
LoopCount(w) == IF w[1] >= \h8000 THEN 0 ELSE Min(W32Val(w), LCODE_MAX_WORDS)

\* ldr r3, [src], #4 ; str r3, [dst], #4, n times
RECURSIVE copy_loop(_, _, _, _)
copy_loop(m, src, dst, n) ==
    IF n = 0 THEN m
    ELSE copy_loop(Store(m, dst, LeBytes(PeekWord(m, src))),
                   U32(src + 4), U32(dst + 4), n - 1)

\* the thunk at e is run: r0 is the word at e + 40, r1 the address e + 48,
\* r2 the word at e + 44; word 7 of the code tells which way the loop copies
thunk_exec(m, e) ==
    IF PeekWord(m, e + 28) = W32(\he490, \h3004)
    THEN copy_loop(m, AddrOf(PeekWord(m, e + 40)), U32(e + LCODE_ARM_SIZE),
                   LoopCount(PeekWord(m, e + 44)))
    ELSE IF PeekWord(m, e + 28) = W32(\he491, \h3004)
    THEN copy_loop(m, U32(e + LCODE_ARM_SIZE), AddrOf(PeekWord(m, e + 40)),
                   LoopCount(PeekWord(m, e + 44)))
    ELSE m

\* the memory after the FEL operations of ops, first to last
RECURSIVE TargetRun(_, _)
TargetRun(m, ops) ==
    IF ops = <<>> THEN m
    ELSE IF Head(ops).op = "WRITE"
         THEN TargetRun(Store(m, Head(ops).addr, Payload(Head(ops))), Tail(ops))
    ELSE IF Head(ops).op = "EXEC"
         THEN TargetRun(thunk_exec(m, Head(ops).addr), Tail(ops))
    ELSE TargetRun(m, Tail(ops))

\* the word addresses and the values of the runs
MemAddrs == { \h1000 + 44, \h1000 + 4 * LCODE_MAX_TOTAL, \h0A000000 }

MemVals == { W32(\hFFFF, \hFFFF), W32(0, \hAB) }

InitMem ==
    /\ pc = "mem-idle"
    /\ argc = 1
    /\ skip = 1
    /\ pflag_active = FALSE
    /\ status = "running"
    /\ exit_code = -1
    /\ uboot_entry = 0
    /\ uboot_size = 0
    /\ uboot_autostart = FALSE
    /\ soc_info = NULL
    /\ dev \in SocIds
    /\ claimed = TRUE
    /\ log = <<>>
    /\ cmd = NoCmd
    /\ prev_entry = 0
    /\ prev_size = 0
    /\ cp = CpIdle
    /\ tt = "NULL"
    /\ fel = NoFel
    /\ fel_count = 0
    /\ todo = <<>>
    /\ usb_log = <<>>
    /\ mem = <<>>
    /\ expect = <<>>
    /\ readl_val = "none"
    /\ wl = NoCall
    /\ armed = FALSE
    /\ prev_autostart = FALSE

\* a call has produced st: its FEL operations have acted on the target
MemRan(st, kind, args) ==
    /\ log' = st.log
    /\ status' = st.status
    /\ exit_code' = st.exit_code
    /\ soc_info' = st.soc
    /\ cmd' = [kind |-> kind, args |-> args]
    /\ mem' = TargetRun(mem, st.log)
    /\ pc' = IF st.status = "running" THEN "mem-idle" ELSE "end"
    /\ UNCHANGED << argc, skip, pflag_active, uboot_entry, uboot_size, uboot_autostart,
                    dev, claimed, prev_entry, prev_size, cp, tt, usb_vars, hist_vars, word_vars >>

\* aw_fel_writel(usb, a, v)
MemWritel ==
    /\ pc = "mem-idle"
    /\ \E a \in MemAddrs, v \in MemVals :
          /\ MemRan(aw_fel_writel(St, dev, a, v), "writel", <<a, v>>)
          /\ expect' = IF status' = "running" THEN (a :> v) @@ expect ELSE expect
    /\ readl_val' = "none"

\* val = aw_fel_readl(usb, a): le32toh() of the four bytes read back
MemReadl ==
    /\ pc = "mem-idle"
    /\ \E a \in MemAddrs :
          MemRan(aw_fel_readl(St, dev, a), "readl", <<a>>)
    /\ readl_val' = IF status' = "running"
                    THEN PeekWord(mem', log'[Len(log')].addr)
                    ELSE "none"
    /\ UNCHANGED expect

\* the device changes a word by itself
MemDevice ==
    /\ pc = "mem-idle"
    /\ \E a \in MemAddrs, v \in MemVals :
          /\ PeekWord(mem, a) # v
          /\ mem' = Store(mem, a, LeBytes(v))
          /\ expect' = [x \in DOMAIN expect \ {a} |-> expect[x]]
    /\ cmd' = NoCmd
    /\ log' = <<>>
    /\ readl_val' = "none"
    /\ UNCHANGED << pc, argc, skip, pflag_active, status, exit_code, uboot_entry,
                    uboot_size, uboot_autostart, soc_info, dev, claimed, prev_entry,
                    prev_size, cp, tt, usb_vars, hist_vars, word_vars >>

NextMem == MemWritel \/ MemReadl \/ MemDevice

SpecMem == InitMem /\ [][NextMem]_vars

(***************************************************************************)
(* Properties of the command loop (Spec).  After a command has run, log    *)
(* holds the FEL operations it issued, cmd the command, prev_entry and     *)
(* prev_size the U-Boot region recorded when it began.                     *)
(***************************************************************************)
\* [a, a + n) and [b, b + m) have an address in common
RangesIntersect(a, n, b, m) == n > 0 /\ m > 0 /\ a < b + m /\ b < a + n

HasTag(t) == \E i \in DOMAIN log : log[i].tag = t

\* the command whose outcome the state shows ran the SPL loader
LoaderCmd == cmd.kind \in { "spl", "uboot" }

\* the eGON header of a file, read byte by byte: the tag at offset 4, the
\* declared length, and the checksum identity over the declared length
EgonTag(f) == [k \in 1..8 |-> ByteAt(f, 3 + k)]

EgonLen(f) == IF W32Fits(FileLe32(f, 4)) THEN W32Val(FileLe32(f, 4)) ELSE AddrSpace

EgonIdentity(f) ==
    Sub32(Sub32(Add32(FileLe32(f, 3), FileLe32(f, 3)), W32(\h5F0A, \h6C39)),
          FileWordsSum(f, 0, EgonLen(f) \div 4)) = W32Zero

EgonValid(f) ==
    /\ f.len >= 32
    /\ EgonTag(f) = Str_eGON_BT0
    /\ EgonLen(f) <= f.len
    /\ EgonLen(f) % 4 = 0
    /\ EgonIdentity(f)

EgonValidFiles == { n \in FileNames : EgonValid(FileData[n]) }

\* the writes of SPL data among the operations of the command
SplWrites == SelectSeq(log, LAMBDA e : e.tag = "spl")

\* the swap entries of a record: those before the entry of size 0
SwapEntries(soc) ==
    { soc.swap_buffers[i] : i \in 1 .. (Len(soc.swap_buffers) - 1) }

\* ordered by ascending buf1, without overlap, inside the SPL area
SwapListOrdered(soc) ==
    /\ \A i \in 1 .. (Len(soc.swap_buffers) - 1) : soc.swap_buffers[i].size > 0
    /\ soc.swap_buffers[1].buf1 >= soc.spl_addr
    /\ \A i \in 1 .. (Len(soc.swap_buffers) - 2) :
          soc.swap_buffers[i].buf1 + soc.swap_buffers[i].size
              <= soc.swap_buffers[i + 1].buf1

\* where the byte destined for address a is to be written
SwapDest(soc, a) ==
    IF \E sb \in SwapEntries(soc) : sb.buf1 <= a /\ a < sb.buf1 + sb.size
    THEN LET sb == CHOOSE x \in SwapEntries(soc) : x.buf1 <= a /\ a < x.buf1 + x.size
         IN  sb.buf2 + (a - sb.buf1)
    ELSE a

\* the size limit as the loader's rule states it
RECURSIVE LimitFrom(_, _, _)
LimitFrom(soc, i, lim) ==
    IF soc.swap_buffers[i].size = 0 THEN lim
    ELSE LimitFrom(soc, i + 1,
                   IF soc.swap_buffers[i].buf2 >= soc.spl_addr
                      /\ soc.swap_buffers[i].buf2 < soc.spl_addr + lim
                   THEN soc.swap_buffers[i].buf2 - soc.spl_addr
                   ELSE lim)

SplLenLimit(soc) == Min(soc.thunk_addr, LimitFrom(soc, 1, \h8000))

\* the words the guarded upload commands are given as
GuardedWords == WriteWords \cup MultiWords \cup { "fill", "clear" }

\* the first range such a command asks to write: << offset, len >>
FirstRequest ==
    CASE cmd.kind \in WriteWords ->
             << U32(strtoul(cmd.args[1])), FileData[cmd.args[2]].len >>
      [] cmd.kind \in MultiWords /\ Len(cmd.args) >= 3 ->
             << U32(strtoul(cmd.args[2])), FileData[cmd.args[3]].len >>
      [] cmd.kind \in { "fill", "clear" } /\ cmd.args[Len(cmd.args)] = "pass" ->
             << U32(strtoul(cmd.args[1])), strtoul(cmd.args[2]) >>
      [] OTHER -> << 0, 0 >>

\* C1: once a U-Boot region is recorded (uboot_size > 0), no FEL WRITE that
\* a later write, multiwrite, fill, clear, writel, spl or uboot command
\* issues (the hand-over write included) targets a range that intersects
\* [uboot_entry, uboot_entry + uboot_size).
C1_RegionNeverWritten ==
    (prev_size > 0 /\ cmd.kind \in GuardedWords \cup { "writel", "spl", "uboot" })
        => \A i \in DOMAIN log :
              log[i].op = "WRITE"
                  => ~RangesIntersect(log[i].addr, log[i].len, prev_entry, prev_size)

\* C2: a write, multiwrite, fill or clear command whose requested range
\* intersects the recorded U-Boot region ends the process with exit code 1
\* and nothing is transferred once the guard has fired.
C2_IntersectingRequestRefused ==
    (/\ cmd.kind \in GuardedWords
     /\ prev_size > 0
     /\ RangesIntersect(FirstRequest[1], FirstRequest[2], prev_entry, prev_size))
        => /\ status = "exited"
           /\ exit_code = 1
           /\ pc = "end"
           /\ log = <<>>

\* C3: the SPL loader returns only if the 8 bytes read from spl_addr + 4
\* after the thunk has run are "eGON.FEL"; for any other value the process
\* exits with code 1 and the read is its last operation: no MMU restore and
\* no upload of the U-Boot image follows.
C3_HandshakeDecides ==
    LoaderCmd =>
        /\ \A i \in DOMAIN log :
              (log[i].tag = "handshake" /\ Handshakes[cmd.args[2].hs] # Str_eGON_FEL)
                  => /\ status = "exited"
                     /\ exit_code = 1
                     /\ i = Len(log)
        /\ (status = "running" \/ HasTag("uboot") \/ HasTag("mmu_on"))
              => /\ HasTag("handshake")
                 /\ Handshakes[cmd.args[2].hs] = Str_eGON_FEL

C3_HandshakeRefused ==
    /\ LoaderCmd
    /\ HasTag("handshake")
    /\ cmd.args[2].hs = "bt0"
    /\ status = "exited"

\* C4: a buffer for which the loader issues any write or execute has
\* "eGON.BT0" at offset 4, a declared length that is at most the buffer
\* length and a multiple of 4, and satisfies, modulo 2^32,
\* 2 * checksum - 0x5F0A6C39 - (sum of the first spl_len / 4 words) = 0.
C4_AcceptedHeaderValid ==
    (LoaderCmd /\ \E i \in DOMAIN log : log[i].op \in { "WRITE", "EXEC" })
        => cmd.args[1] \in EgonValidFiles

C4_SplWritten ==
    /\ LoaderCmd
    /\ cmd.args[1] = "spl-max"
    /\ HasTag("spl")
    /\ HasTag("thunk")

\* C5: a buffer that is shorter than 32 bytes, lacks the tag, declares a
\* length above the buffer length or not a multiple of 4, or fails the
\* checksum makes the process exit with code 1 with no FEL WRITE and no
\* FEL EXEC issued: at most the one VERSION probe.
C5_InvalidHeaderRefused ==
    (LoaderCmd /\ cmd.args[1] \notin EgonValidFiles)
        => /\ status = "exited"
           /\ exit_code = 1
           /\ Len(log) <= 1
           /\ \A i \in DOMAIN log : log[i].op = "VERSION"

\* C6: for an accepted SPL and a swap list ordered by ascending buf1 without
\* overlap, the writes of SPL data cover the offsets 0 .. spl_len - 1 once
\* each and in order; the bytes whose destination spl_addr + o lies in an
\* entry's [buf1, buf1 + size) go to buf2 + (spl_addr + o - buf1), the
\* others to spl_addr + o.
C6_SwapPlacement ==
    (LoaderCmd /\ soc_info # NULL /\ HasTag("thunk")
               /\ SwapListOrdered(soc_info_table[soc_info]))
        => LET soc == soc_info_table[soc_info]
               w   == SplWrites
           IN  /\ w # <<>>
               /\ w[1].args[1] = 0
               /\ \A k \in 1 .. (Len(w) - 1) :
                     w[k + 1].args[1] = w[k].args[1] + w[k].len
               /\ w[Len(w)].args[1] + w[Len(w)].len = EgonLen(FileData[cmd.args[1]])
               /\ \A k \in DOMAIN w :
                     /\ w[k].len > 0
                     /\ w[k].addr = SwapDest(soc, soc.spl_addr + w[k].args[1])
                     /\ \A sb \in SwapEntries(soc) :
                           \/ ~RangesIntersect(soc.spl_addr + w[k].args[1], w[k].len,
                                               sb.buf1, sb.size)
                           \/ /\ sb.buf1 <= soc.spl_addr + w[k].args[1]
                              /\ soc.spl_addr + w[k].args[1] + w[k].len
                                     <= sb.buf1 + sb.size

C6_OneSwapScenario ==
    /\ LoaderCmd
    /\ cmd.args[1] = "spl"
    /\ HasTag("thunk")
    /\ soc_info # NULL
    /\ soc_info_table[soc_info].swap_buffers
           = << Swap(\h2000, \hA000, \h0400), SwapEnd >>
    /\ [k \in DOMAIN SplWrites |->
           << SplWrites[k].args[1], SplWrites[k].addr, SplWrites[k].len >>]
           = << <<0, 0, \h2000>>, <<\h2000, \hA000, \h400>>, <<\h2400, \h2400, \h4000>> >>

\* C7: for every SoC record and every SPL the loader accepts, the range
\* [spl_addr, spl_addr + spl_len) does not intersect the thunk area
\* [thunk_addr, thunk_addr + thunk_size).
C7_SplClearOfThunk ==
    (LoaderCmd /\ soc_info # NULL /\ HasTag("thunk"))
        => ~RangesIntersect(soc_info_table[soc_info].spl_addr,
                            EgonLen(FileData[cmd.args[1]]),
                            soc_info_table[soc_info].thunk_addr,
                            soc_info_table[soc_info].thunk_size)

\* C8: the loader accepts an SPL iff spl_len <= spl_len_limit, the limit
\* being 0x8000 lowered to buf2 - spl_addr for each swap entry whose buf2
\* lies in [spl_addr, spl_addr + limit) and to thunk_addr when that is
\* smaller; above the limit the process exits with code 1 and the thunk is
\* neither written nor executed.
C8_SizeLimit ==
    (LoaderCmd /\ soc_info # NULL /\ cmd.args[1] \in EgonValidFiles)
        => LET soc     == soc_info_table[soc_info]
               spl_len == EgonLen(FileData[cmd.args[1]])
           IN  /\ spl_len > SplLenLimit(soc)
                     => /\ status = "exited"
                        /\ exit_code = 1
                        /\ ~HasTag("thunk")
                        /\ \A i \in DOMAIN log :
                              ~(log[i].op = "EXEC" /\ log[i].addr = soc.thunk_addr)
               /\ HasTag("thunk") => spl_len <= SplLenLimit(soc)
               /\ (/\ spl_len <= SplLenLimit(soc)
                   /\ cmd.args[2].mmu \in { "off", "on" }
                   /\ soc.mmu_tt_addr % 16384 = 0
                   /\ FEL_TO_SPL_THUNK_SIZE + 4 + Len(soc.swap_buffers) * 12
                          <= soc.thunk_size)
                     => HasTag("thunk")

C8_AtTheLimit ==
    /\ LoaderCmd
    /\ soc_info # NULL
    /\ EgonLen(FileData[cmd.args[1]]) = SplLenLimit(soc_info_table[soc_info])
    /\ SplLenLimit(soc_info_table[soc_info]) < \h8000
    /\ HasTag("thunk")

(***************************************************************************)
(* Properties of the transfers (SpecUsb).  usb_log holds the transfers of  *)
(* the FEL operation fel; after FelDone the operation is complete.         *)
(***************************************************************************)
OpDone == pc = "usb-idle" /\ fel # NoFel

\* the AW-USB transactions begun: the first transfer of each AWUC request
IsRequest(t) == t.part = "request" /\ t.first

\* those with the given sub-request, stage and announced length
Requested(type, stage, length) ==
    { i \in DOMAIN usb_log :
          /\ IsRequest(usb_log[i])
          /\ usb_log[i].req.request = type
          /\ usb_log[i].stage = stage
          /\ usb_log[i].req.length = length }

CountUsb(type) ==
    Cardinality({ i \in DOMAIN usb_log :
                      IsRequest(usb_log[i]) /\ usb_log[i].req.request = type })

\* the status replies received in full
Replies == { i \in DOMAIN usb_log : usb_log[i].part = "response" /\ usb_log[i].last }

\* the bytes of data moved in a stage
RECURSIVE SumSent(_)
SumSent(ts) == IF ts = <<>> THEN 0 ELSE Head(ts).sent + SumSent(Tail(ts))

DataSent(stage) ==
    SumSent(SelectSeq(usb_log, LAMBDA t : t.part = "data" /\ t.stage = stage))

PayloadLen(e) == IF e.op = "EXEC" THEN 0 ELSE e.len

PayloadUsb(e) == IF e.op = "WRITE" THEN AW_USB_WRITE ELSE AW_USB_READ

FelCode(e) ==
    CASE e.op = "VERSION" -> AW_FEL_VERSION
      [] e.op = "WRITE"   -> AW_FEL_1_WRITE
      [] e.op = "EXEC"    -> AW_FEL_1_EXEC
      [] e.op = "READ"    -> AW_FEL_1_READ

StageRank(stage) == CASE stage = "request" -> 1 [] stage = "payload" -> 2 [] stage = "status" -> 3

\* C9 as the specification words it: per FEL operation exactly one AW-USB
\* request with sub-request WRITE and, only for an operation with a read
\* payload, exactly one with sub-request READ.
C9_OneWriteAndOneRead ==
    OpDone => /\ CountUsb(AW_USB_WRITE) = 1
              /\ CountUsb(AW_USB_READ) = (IF fel.op \in { "READ", "VERSION" } THEN 1 ELSE 0)

\* C9, amended: every FEL operation makes one AW-USB WRITE transaction for
\* its 16-byte request, one AW-USB READ transaction for its 8-byte status
\* and, if it has a payload, one transaction for it between the two (WRITE
\* for a FEL WRITE, READ for READ and VERSION), each answered by its own
\* status reply before the next begins; every transfer made belongs to the
\* one operation in progress.
C9_TransactionsOfOperation ==
    /\ OpDone =>
          /\ CountUsb(AW_USB_WRITE) = (IF fel.op = "WRITE" THEN 2 ELSE 1)
          /\ CountUsb(AW_USB_READ) = (IF fel.op \in { "READ", "VERSION" } THEN 2 ELSE 1)
          /\ Cardinality(Requested(AW_USB_WRITE, "request", 16)) = 1
          /\ Cardinality(Requested(AW_USB_READ, "status", 8)) = 1
          /\ Cardinality(Requested(PayloadUsb(fel), "payload", PayloadLen(fel)))
                = (IF fel.op = "EXEC" THEN 0 ELSE 1)
          /\ Cardinality(Replies) = CountUsb(AW_USB_WRITE) + CountUsb(AW_USB_READ)
    /\ \A i \in DOMAIN usb_log :
          /\ usb_log[i].n = usb_log[1].n
          /\ usb_log[i].op = fel.op
          /\ IsRequest(usb_log[i]) /\ i > 1 => (i - 1) \in Replies
    /\ pc = "usb-idle" => todo = <<>>

C9_WriteMakesThree ==
    /\ OpDone
    /\ fel.op = "WRITE"
    /\ fel.len > 0
    /\ CountUsb(AW_USB_WRITE) = 2
    /\ CountUsb(AW_USB_READ) = 1

\* C10: within a FEL operation the transactions come in the order request,
\* payload, status: the 16-byte request (opcode, address, length) by an
\* AW-USB WRITE, then the payload (len bytes written for WRITE, len bytes
\* read for READ, 32 bytes read for VERSION, none for EXEC), then the
\* 8-byte status by an AW-USB READ; no stage begins before the data of the
\* stage before it has been moved in full.
C10_RequestPayloadStatus ==
    /\ \A i \in 1 .. (Len(usb_log) - 1) :
          StageRank(usb_log[i].stage) <= StageRank(usb_log[i + 1].stage)
    /\ \A i \in DOMAIN usb_log :
          LET t == usb_log[i]
          IN  /\ t.stage = "request" =>
                    /\ t.usb = AW_USB_WRITE /\ t.announced = 16
                    /\ t.part = "data" =>
                          /\ t.ep = "OUT"
                          /\ t.fel_req.request = FelCode(fel)
                          /\ t.fel_req.address = (IF fel.op = "VERSION" THEN 0 ELSE fel.addr)
                          /\ t.fel_req.length
                                = (IF fel.op \in { "READ", "WRITE" } THEN fel.len ELSE 0)
              /\ t.stage = "payload" =>
                    /\ fel.op # "EXEC"
                    /\ t.usb = PayloadUsb(fel) /\ t.announced = PayloadLen(fel)
                    /\ t.part = "data" => t.ep = (IF fel.op = "WRITE" THEN "OUT" ELSE "IN")
                    /\ DataSent("request") = 16
              /\ t.stage = "status" =>
                    /\ t.usb = AW_USB_READ /\ t.announced = 8
                    /\ t.part = "data" => t.ep = "IN"
                    /\ DataSent("request") = 16
                    /\ DataSent("payload") = PayloadLen(fel)
    /\ OpDone => /\ DataSent("status") = 8
                 /\ DataSent("payload") = PayloadLen(fel)

C10_PayloadInPieces ==
    /\ OpDone
    /\ fel.op = "WRITE"
    /\ fel.len = 5 * PROGRESS_CHUNK
    /\ \E i \in DOMAIN usb_log :
          /\ usb_log[i].stage = "payload"
          /\ usb_log[i].part = "data"
          /\ usb_log[i].sent < usb_log[i].chunk
    /\ Cardinality({ i \in DOMAIN usb_log :
                        usb_log[i].stage = "payload" /\ usb_log[i].part = "data" }) = 6

\* the transfer that began the AW-USB transaction transfer i belongs to
TxnStart(i) == CHOOSE j \in 1..i :
                  /\ IsRequest(usb_log[j])
                  /\ \A k \in (j + 1)..i : ~IsRequest(usb_log[k])

\* the bytes moved by the transfers j..i that belong to a part
PartSent(j, i, part) ==
    SumSent(SelectSeq(SubSeq(usb_log, j, i), LAMBDA t : t.part = part))

\* C11: every AW-USB transaction is one 32-byte "AWUC" request sent on the
\* OUT endpoint, then data of exactly the announced length (on OUT for
\* sub-request WRITE, on IN for READ), then one 13-byte status reply
\* received on IN; the length of the request and its repeat both equal the
\* length of the data.
C11_Framing ==
    /\ usb_log # <<>> => IsRequest(usb_log[1])
    /\ \A i \in DOMAIN usb_log :
          LET t   == usb_log[i]
              j   == TxnStart(i)
              req == usb_log[TxnStart(i)].req
          IN  /\ req.signature = <<65, 87, 85, 67>>
              /\ req.request \in { AW_USB_READ, AW_USB_WRITE }
              /\ req.length2 = req.length
              /\ t.part = "request" =>
                    /\ t.ep = "OUT" /\ t.call = "usb_bulk_send"
                    /\ PartSent(j, i, "data") = 0 /\ PartSent(j, i, "response") = 0
                    /\ PartSent(j, i, "request") <= 32
              /\ t.part = "data" =>
                    /\ t.ep = (IF req.request = AW_USB_WRITE THEN "OUT" ELSE "IN")
                    /\ PartSent(j, i, "request") = 32
                    /\ PartSent(j, i, "response") = 0
                    /\ PartSent(j, i, "data") <= req.length
              /\ t.part = "response" =>
                    /\ t.ep = "IN" /\ t.call = "usb_bulk_recv"
                    /\ PartSent(j, i, "request") = 32
                    /\ PartSent(j, i, "data") = req.length
                    /\ PartSent(j, i, "response") <= 13
                    /\ t.last <=> PartSent(j, i, "response") = 13
              /\ (IsRequest(t) /\ i > 1) => (i - 1) \in Replies
    /\ (todo = <<>> /\ usb_log # <<>>) => Len(usb_log) \in Replies

C11_ReadInTwoChunks ==
    /\ OpDone
    /\ fel.op = "READ"
    /\ fel.len = 5 * PROGRESS_CHUNK
    /\ \E i \in DOMAIN usb_log :
          /\ usb_log[i].part = "request" /\ usb_log[i].sent < 32
    /\ Cardinality({ i \in DOMAIN usb_log :
                        /\ usb_log[i].stage = "payload" /\ usb_log[i].part = "data"
                        /\ usb_log[i].ep = "IN" }) = 2

\* C12: a 13-byte status reply is accepted if and only if its first four
\* bytes are "AWUS", whatever the nine bytes after them hold; any other
\* reply aborts the process before another transfer is made.
C12_ReplyAcceptedByFourBytes ==
    \A i \in DOMAIN usb_log :
       usb_log[i].reply # "none" =>
          IF SubSeq(UsbResponses[usb_log[i].reply], 1, 4) = <<65, 87, 85, 83>>
          THEN ~(status = "aborted" /\ i = Len(usb_log))
          ELSE status = "aborted" /\ i = Len(usb_log) /\ pc = "end"

(***************************************************************************)
(* Properties of readl and writel (SpecMem).                               *)
(***************************************************************************)
\* a lies in the scratch buffer of the SoC, LCODE_MAX_TOTAL words
InScratch(a) ==
    /\ soc_info # NULL
    /\ a >= soc_info_table[soc_info].scratch_addr
    /\ a < soc_info_table[soc_info].scratch_addr + 4 * LCODE_MAX_TOTAL

\* readl(a) has returned, and a holds the value of a writel that the device
\* has left alone since
ReadBack(a) ==
    /\ cmd.kind = "readl" /\ cmd.args = <<a>>
    /\ status = "running"
    /\ a \in DOMAIN expect

\* C13: for a word address A outside the scratch area and a 32-bit value V,
\* writel(A, V) followed by readl(A) returns V when the device has left the
\* word unmodified in between.
C13_WritelReadl ==
    \A a \in MemAddrs : (ReadBack(a) /\ ~InScratch(a)) => readl_val = expect[a]

C13_HighWordReadBack ==
    /\ ReadBack(\h0A000000)
    /\ ~InScratch(\h0A000000)
    /\ expect[\h0A000000] = W32(\hFFFF, \hFFFF)
    /\ readl_val = W32(\hFFFF, \hFFFF)
    /\ PeekWord(mem, \h1000 + 4 * LCODE_MAX_TOTAL) = W32(0, \hAB)

(***************************************************************************)
(* Properties of the MMU paths of the SPL loader (Spec).  cmd.args[2]      *)
(* names what the target held when the command began.                      *)
(***************************************************************************)
RunMmu == MmuProfiles[cmd.args[2].mmu]

\* the loader has called aw_backup_and_disable_mmu(): SCTLR was asked for
BackupEntered ==
    /\ LoaderCmd
    /\ \E i \in DOMAIN log : log[i].tag = "mrc" /\ log[i].args = CpEnc("sctlr")

\* SCTLR without the bits M (0), UNK (6), Z (11), I (12) and V (13)
SctlrIgnoring(s) ==
    (s \div 16384) * 16384 + ((s \div 128) % 16) * 128 + ((s \div 2) % 32) * 2

SctlrDeviates(m) == SctlrIgnoring(m.sctlr) # \hC50038

OthersDeviate(m) ==
    \/ m.dacr # \h5555 * 65536 + \h5555
    \/ m.ttbcr # 0
    \/ m.ttbr0 % 16384 # 0

\* exit(1) straight after the read of a register: nothing was written by
\* the backup path or after it
FatalAtBackup ==
    /\ status = "exited" /\ exit_code = 1
    /\ log[Len(log)].op = "READ" /\ log[Len(log)].tag = "cp_reg"
    /\ \A i \in DOMAIN log :
          log[i].tag \notin { "mmu_off", "mcr", "tt", "spl", "thunk", "mmu_on", "uboot" }

\* C14 (as stated): the backup path is fatal whenever SCTLR without M, Z, I,
\* V and bit 6 differs from 0x00C50038, or DACR from 0x55555555, or TTBCR
\* from 0, or the low 14 bits of TTBR0 are not zero.
C14_AnyDeviationFatal ==
    (BackupEntered /\ (SctlrDeviates(RunMmu) \/ OthersDeviate(RunMmu))) => FatalAtBackup

\* C14 (amended): the backup path is fatal when SCTLR without M, Z, I, V and
\* bit 6 differs from 0x00C50038, or when SCTLR.M is set and DACR differs
\* from 0x55555555, TTBCR from 0, or the low 14 bits of TTBR0 from zero;
\* with SCTLR.M clear the other three registers are not looked at.
C14_DeviationFatal ==
    /\ (BackupEntered /\ SctlrDeviates(RunMmu)) => FatalAtBackup
    /\ (BackupEntered /\ Bit(RunMmu.sctlr, 0) = 1 /\ OthersDeviate(RunMmu)) => FatalAtBackup
    /\ (BackupEntered /\ ~SctlrDeviates(RunMmu) /\ Bit(RunMmu.sctlr, 0) = 0) =>
          \A i \in DOMAIN log :
             log[i].tag = "mrc" => log[i].args \notin { CpEnc("dacr"), CpEnc("ttbcr") }

C14_BadTtbr0Refused ==
    /\ BackupEntered
    /\ cmd.args[2].mmu = "bad-ttbr0"
    /\ FatalAtBackup
    /\ Cardinality({ i \in DOMAIN log : log[i].tag = "cp_reg" }) = 4

\* the three tests of the backup path on entry i of a table
ShapeOk(e, i) ==
    /\ e.sec = i
    /\ (e.low \div 2) % 2 = 1
    /\ (e.low \div 262144) % 2 = 0

\* per target: every entry of the table at TTBR0 passes
TableShaped ==
    [ m \in MmuNames |->
        \A i \in 0 .. 4095 : ShapeOk(TTEntry(MmuProfiles[m].table, i), i) ]

\* the backup path has read the 16 KiB at TTBR0
TableRead == BackupEntered /\ \E i \in DOMAIN log : log[i].op = "READ" /\ log[i].tag = "tt"

\* C15: a table returned by the backup path has, for every i in 0..4095,
\* bits 31..20 equal to i, bit 1 set and bit 18 clear; when an entry read
\* from TTBR0 is otherwise the process exits with 1 and the code that
\* disables the MMU is neither written nor executed.
C15_ReturnedTableShaped ==
    /\ (LoaderCmd /\ tt = "backup") => (TableRead /\ TableShaped[cmd.args[2].mmu])
    /\ (TableRead /\ ~TableShaped[cmd.args[2].mmu]) =>
          /\ status = "exited" /\ exit_code = 1
          /\ log[Len(log)].op = "READ" /\ log[Len(log)].tag = "tt"
          /\ ~HasTag("mmu_off")
          /\ cp.sctlr = RunMmu.sctlr
    /\ (TableRead /\ TableShaped[cmd.args[2].mmu]) => (tt = "backup" /\ HasTag("mmu_off"))

C15_IndirectMappingRefused ==
    /\ TableRead
    /\ cmd.args[2].mmu = "bad-map"
    /\ status = "exited" /\ exit_code = 1
    /\ ~HasTag("mmu_off")

\* bits 19..0 without TEX (14..12), C (3) and B (2), and those bits
NotTexCb(low) == low - ((low \div 4096) % 8) * 4096 - ((low \div 4) % 4) * 4

TexCb(low) == << (low \div 4096) % 8, (low \div 8) % 2, (low \div 4) % 2 >>

\* entry i as uploaded (u) against entry i as held (e)
RestoredAsClaimed(e, u, i) ==
    /\ u.sec = e.sec
    /\ NotTexCb(u.low) = NotTexCb(e.low)
    /\ (i >= \h400 /\ i <= \hBFF) => TexCb(u.low) = <<1, 0, 0>>
    /\ i = \hFFF => TexCb(u.low) = <<1, 1, 1>>
    /\ (i < \h400 \/ (i > \hBFF /\ i # \hFFF)) => u.low = e.low
    /\ ShapeOk(e, i) => ShapeOk(u, i)

RestoreChecked ==
    [ k \in { "backup", "generated" }, m \in MmuNames |->
        \A i \in 0 .. 4095 :
           RestoredAsClaimed(held_tt(k, m, i), uploaded_tt(k, m, i), i) ]

\* C16: the restore path changes only the TEX, C and B bits of the entries
\* 0x400..0xBFF (to TEX = 001, C = 0, B = 0) and of entry 0xFFF (to
\* TEX = 001, C = 1, B = 1); every other bit and every other entry is
\* uploaded as it was, so bits 31..20 = i, bit 1 = 1 and bit 18 = 0 are kept.
C16_RestoreTouchesTexCbOnly ==
    LoaderCmd =>
       \A i \in DOMAIN log :
          (log[i].op = "WRITE" /\ log[i].tag = "tt") =>
             /\ log[i].len = 4 * 4096
             /\ RestoreChecked[log[i].args[1], cmd.args[2].mmu]

C16_RestoreOfTexCbTable ==
    /\ LoaderCmd
    /\ cmd.args[2].mmu = "on-texcb"
    /\ \E i \in DOMAIN log :
          log[i].op = "WRITE" /\ log[i].tag = "tt" /\ log[i].args = <<"backup">>
    /\ HasTag("mmu_on")
    /\ held_tt("backup", "on-texcb", \h400).low = \h6DEE
    /\ uploaded_tt("backup", "on-texcb", \h400).low = \h1DE2
    /\ uploaded_tt("backup", "on-texcb", \hFFF).low = \h1DEE
    /\ uploaded_tt("backup", "on-texcb", \h3FF).low = \h6DEE

\* the positions in log of the write of a coprocessor register
McrAt(reg, val) ==
    { i \in DOMAIN log : log[i].tag = "mcr" /\ log[i].args = CpEnc(reg) \o <<val>> }

\* the backup path has found the MMU off on a SoC that names a table address
SynthesisCase ==
    /\ BackupEntered
    /\ ~SctlrDeviates(RunMmu)
    /\ Bit(RunMmu.sctlr, 0) = 0
    /\ soc_info_table[soc_info].mmu_tt_addr # 0

\* C17: when the backup path finds SCTLR.M = 0 and mmu_tt_addr is 16 KiB
\* aligned, the loader writes DACR = 0x55555555, TTBCR = 0 and TTBR0 =
\* mmu_tt_addr, in this order and before any byte of the SPL; after a
\* successful handshake it uploads the 16 KiB generated table to mmu_tt_addr
\* before it runs the code that enables the MMU.  When mmu_tt_addr is not
\* 16 KiB aligned the process exits with 1 before any of these writes.
C17_Synthesis ==
    /\ (SynthesisCase /\ soc_info_table[soc_info].mmu_tt_addr % 16384 = 0) =>
          /\ \E a \in McrAt("dacr", \h5555 * 65536 + \h5555), b \in McrAt("ttbcr", 0),
                c \in McrAt("ttbr0", soc_info_table[soc_info].mmu_tt_addr) :
                /\ a < b /\ b < c
                /\ \A i \in DOMAIN log : log[i].tag \in { "spl", "thunk" } => c < i
          /\ Cardinality({ i \in DOMAIN log : log[i].tag = "mcr" }) = 3
          /\ (HasTag("handshake") /\ cmd.args[2].hs = "fel") =>
                \E h, t, w, x \in DOMAIN log :
                   /\ h < t /\ t < w /\ w < x
                   /\ log[h].tag = "handshake"
                   /\ log[t].op = "WRITE" /\ log[t].tag = "tt"
                   /\ log[t].args = <<"generated">>
                   /\ log[t].addr = soc_info_table[soc_info].mmu_tt_addr
                   /\ log[t].len = 16 * 1024
                   /\ log[w].op = "WRITE" /\ log[w].tag = "mmu_on"
                   /\ log[x].op = "EXEC"
                   /\ log[x].addr = soc_info_table[soc_info].scratch_addr
                   /\ \A j \in DOMAIN log : log[j].tag = "mmu_on" => j = w
    /\ (SynthesisCase /\ soc_info_table[soc_info].mmu_tt_addr % 16384 # 0) =>
          /\ status = "exited" /\ exit_code = 1
          /\ ~HasTag("mcr") /\ ~HasTag("spl") /\ ~HasTag("tt")

C17_TableGeneratedAndUploaded ==
    /\ SynthesisCase
    /\ soc_info_table[soc_info].mmu_tt_addr = \h8000
    /\ status = "running"
    /\ HasTag("mmu_on")
    /\ \E t \in DOMAIN log :
          log[t].tag = "tt" /\ log[t].op = "WRITE" /\ log[t].addr = \h8000

\* the other case of the claim: the misaligned address is refused
SynthesisRefused ==
    /\ SynthesisCase
    /\ soc_info_table[soc_info].mmu_tt_addr % 16384 # 0
    /\ status = "exited"

(***************************************************************************)
(* Properties of the end of the run (Spec).                                *)
(***************************************************************************)
\* the run has ended by the return of main()
RunDone == cmd.kind = "finish" /\ status = "returned"

AutostartExec == << FelOp("EXEC", uboot_entry, 0, "exec", <<>>) >>

\* C18: EXEC(uboot_entry) is issued if and only if a "uboot" command has
\* completed at a point where a U-Boot region was recorded and no "reset64"
\* ran after it; it is issued once, when every command has been processed,
\* as the last FEL operation of the run.  A command line with "spl" and no
\* "uboot" never issues it.
C18_AutostartIffArmed ==
    RunDone =>
       /\ (log = AutostartExec) <=> armed
       /\ log # <<>> => (log = AutostartExec /\ pc = "end")

\* reset64 has run on a SoC whose record is known
Reset64Ran == cmd.kind = "reset64" /\ status = "running"

\* C19: "reset64 ADDR" cancels a pending autostart and ends the command
\* loop: no command after it is executed and no autostart EXEC is issued;
\* when rvbar_reg is known the last FEL operations of the run are the WRITE
\* of the RMR code (with rvbar_reg, ADDR and mode 3) to scratch_addr and
\* EXEC(scratch_addr).
C19_Reset64EndsTheRun ==
    /\ [](Reset64Ran =>
            /\ pc = "break"
            /\ ~uboot_autostart
            /\ soc_info_table[soc_info].rvbar_reg # 0 =>
                  /\ Len(log) >= 2
                  /\ log[Len(log) - 1] =
                        FelOp("WRITE", soc_info_table[soc_info].scratch_addr, 60, "rmr",
                              << soc_info_table[soc_info].rvbar_reg,
                                 U32(strtoul(cmd.args[1])), 3 >>)
                  /\ log[Len(log)] =
                        FelOp("EXEC", soc_info_table[soc_info].scratch_addr, 0, "exec", <<>>))
    /\ [][Reset64Ran => (cmd'.kind = "finish" /\ log' = <<>> /\ pc' = "end")]_vars

C19_PendingAutostartCancelled ==
    /\ Reset64Ran
    /\ prev_autostart
    /\ argc > 3
    /\ soc_info_table[soc_info].rvbar_reg # 0
    /\ Len(log) = 2

\* C20: when rvbar_reg is absent from the SoC record the RMR request fails
\* soft: no code is written or executed, the process does not end with an
\* error, and processing goes on with the commands that follow.
C20_SoftFailContinues ==
    (Reset64Ran /\ soc_info_table[soc_info].rvbar_reg = 0) =>
       /\ ~HasTag("rmr")
       /\ \A i \in DOMAIN log : log[i].op # "EXEC"
       /\ pc = "ran"

(***************************************************************************)
(* The command line: how many tokens each command takes (main, the chain   *)
(* of strcmp tests).                                                       *)
(***************************************************************************)
\* the number of argument tokens the documentation gives for each command
DocumentedArgs(c) ==
    CASE c.kind \in { "hex", "dump", "writel", "clear" } \cup WriteWords -> 2
      [] c.kind \in { "exe", "readl", "spl", "uboot", "echo-gauge" } -> 1
      [] c.kind \in { "read", "fill" } -> 3
      [] c.kind \in { "ver", "sid" } -> 0
      [] c.kind \in MultiWords -> 1 + 2 * strtoul(c.args[1])
      [] OTHER -> -1

\* a command has run to its end and the loop is about to take its tokens
CommandDone == pc = "ran" /\ status = "running" /\ DocumentedArgs(cmd) >= 0

\* C21: every command consumes exactly its own name and its documented
\* number of argument tokens, so that the token after them is the next
\* command; in particular the token following "exe ADDR".
C21_ConsumesNameAndArgs ==
    CommandDone => skip = 1 + DocumentedArgs(cmd)

\* the same for every command but exe, which takes one token more
C21_AllButExe ==
    (CommandDone /\ cmd.kind # "exe") => skip = 1 + DocumentedArgs(cmd)

(***************************************************************************)
(* Exit codes (usb_error, the exit() calls, the return of main).           *)
(***************************************************************************)
\* the process has ended
Ended == pc = "end"

\* C22: a failed bulk transfer ends the process with exit code 2 before
\* another transfer is attempted; a run in which every transfer succeeds
\* ends with exit code 0 when every validation passes and with exit code 1
\* on a command or validation error.  Under Spec every transfer succeeds,
\* so that every ended run has left by exit code 0 or 1.
C22_ExitCodes ==
    Ended => \/ status = "returned" /\ exit_code = 0
             \/ status = "exited" /\ exit_code \in { 0, 1 }

\* the part of C22 about the transfers, under SpecUsb: a transfer that
\* returns non-zero is the last one, and the exit code is 2 only then
UsbFailureIsFinal ==
    /\ [](exit_code = 2 => (status = "exited" /\ Ended))
    /\ [][Ended => (usb_log' = usb_log /\ todo' = todo /\ exit_code' = exit_code)]_vars

\* a transfer has failed after others had succeeded
UsbFailedMidway == exit_code = 2 /\ usb_log # <<>> /\ todo # <<>>

(***************************************************************************)
(* The USB interface (libusb_claim_interface, libusb_release_interface).   *)
(***************************************************************************)
\* no FEL operation of a command is issued with the interface unclaimed
ClaimedBeforeTransfer == (log # <<>> /\ cmd.kind # "finish") => claimed

\* C23: the interface is claimed before the first transfer, and it is
\* released on every path by which the process ends: the return of main and
\* every exit() of a fatal error alike.
C23_ClaimedThenReleased ==
    /\ ClaimedBeforeTransfer
    /\ (Ended /\ status \in { "returned", "exited" }) => ~claimed

(***************************************************************************)
(* SpecWords: the wrappers fel_readl_n() and fel_writel_n(), one pass of   *)
(* their while loop per step.  wl holds the loop variables: addr, the      *)
(* words dst or src has been advanced by (off), count, and the arguments   *)
(* of every call of aw_fel_readl_n() or aw_fel_writel_n() made so far.     *)
(***************************************************************************)
\* the word counts and the addresses of the calls
WordCounts == { 0, 1, LCODE_MAX_WORDS, LCODE_MAX_WORDS + 1, 2 * LCODE_MAX_WORDS, 10000 }

WordAddrs == { \h1000, \h0A000000 }

WordSocs == { soc_info_table[1].soc_id, soc_info_table[2].soc_id, \h1999 }

\* word k of the buffer src points to when fel_writel_n() is called
SrcWord(k) == k

\* n words of that buffer from word off on
SrcFrom(off, n) == [i \in 1 .. n |-> SrcWord(off + i)]

\* a loop that hands the whole count to a single call
chunk_whole(count) == count

\* size_t n = count > LCODE_MAX_WORDS ? LCODE_MAX_WORDS : count;
chunk_n(count) == IF count > LCODE_MAX_WORDS THEN LCODE_MAX_WORDS ELSE count

\* the call made by one pass of the loop
chunk_call(w, n) ==
    IF w.fn = "fel_readl_n"
    THEN aw_fel_readl_n(St, dev, w.addr, n)
    ELSE aw_fel_writel_n(St, dev, w.addr, SrcFrom(w.off, n), n)

\* addr += n * sizeof(uint32_t); dst += n; count -= n;
chunk_next(w, n) ==
    [w EXCEPT !.addr = U32(w.addr + n * 4),
              !.off = w.off + n,
              !.count = w.count - n,
              !.calls = Append(w.calls, [addr |-> w.addr, off |-> w.off, n |-> n])]

InitWords ==
    /\ pc = "words-idle"
    /\ argc = 1
    /\ skip = 1
    /\ pflag_active = FALSE
    /\ status = "running"
    /\ exit_code = -1
    /\ uboot_entry = 0
    /\ uboot_size = 0
    /\ uboot_autostart = FALSE
    /\ soc_info = NULL
    /\ dev \in WordSocs
    /\ claimed = TRUE
    /\ log = <<>>
    /\ cmd = NoCmd
    /\ prev_entry = 0
    /\ prev_size = 0
    /\ cp = CpIdle
    /\ tt = "NULL"
    /\ fel = NoFel
    /\ fel_count = 0
    /\ todo = <<>>
    /\ usb_log = <<>>
    /\ mem = <<>>
    /\ expect = <<>>
    /\ readl_val = "none"
    /\ wl = NoCall
    /\ armed = FALSE
    /\ prev_autostart = FALSE

words_frame == << argc, skip, pflag_active, uboot_entry, uboot_size, uboot_autostart,
                  dev, claimed, prev_entry, prev_size, cp, tt, usb_vars, mem_vars,
                  hist_vars >>

\* fel_readl_n(usb, addr, dst, count) or fel_writel_n(usb, addr, src, count)
\* is entered
WordsCall ==
    /\ pc = "words-idle"
    /\ \E fn \in { "fel_readl_n", "fel_writel_n" }, a \in WordAddrs, c \in WordCounts :
          /\ wl' = [fn |-> fn, addr |-> a, off |-> 0, count |-> c, calls |-> <<>>]
          /\ cmd' = [kind |-> fn, args |-> <<a, c>>]
    /\ log' = <<>>
    /\ pc' = "words-loop"
    /\ UNCHANGED << status, exit_code, soc_info, words_frame >>

\* while (count > 0): one pass
WordsRound ==
    /\ pc = "words-loop"
    /\ wl.count > 0
    /\ LET n == chunk_n(wl.count)
           st == chunk_call(wl, n)
       IN  /\ log' = log \o st.log
           /\ status' = st.status
           /\ exit_code' = st.exit_code
           /\ soc_info' = st.soc
           /\ wl' = IF st.status = "running" THEN chunk_next(wl, n) ELSE wl
           /\ pc' = IF st.status = "running" THEN "words-loop" ELSE "end"
    /\ UNCHANGED << cmd, words_frame >>

\* count == 0: the wrapper returns
WordsReturn ==
    /\ pc = "words-loop"
    /\ wl.count = 0
    /\ pc' = "words-done"
    /\ UNCHANGED << status, exit_code, soc_info, log, cmd, wl, words_frame >>

\* the next call of a wrapper, on the session as it is
WordsAgain ==
    /\ pc = "words-done"
    /\ pc' = "words-idle"
    /\ UNCHANGED << status, exit_code, soc_info, log, cmd, wl, words_frame >>

NextWords == WordsCall \/ WordsRound \/ WordsReturn \/ WordsAgain

SpecWords == InitWords /\ [][NextWords]_vars

\* the FEL operations of a wrapper's call, the VERSION request of the
\* resolution of the SoC record left out
WordOps == SelectSeq(log, LAMBDA o : o.op # "VERSION")

\* the FEL operations round i of the call consists of
RoundOps(c) ==
    LET scratch == soc_info_table[soc_info].scratch_addr
    IN  IF wl.fn = "fel_readl_n"
        THEN << FelOp("WRITE", scratch, LCODE_ARM_SIZE, "readl_n", <<c.addr, c.n>>),
                FelOp("EXEC", scratch, 0, "exec", <<>>),
                FelOp("READ", scratch + LCODE_ARM_SIZE, 4 * c.n, "readl_n", <<>>) >>
        ELSE << FelOp("WRITE", scratch, (LCODE_ARM_WORDS + c.n) * 4, "writel_n",
                      <<c.addr, c.n>> \o SrcFrom(c.off, c.n)),
                FelOp("EXEC", scratch, 0, "exec", <<>>) >>

\* a wrapper has returned
WordsDone == pc = "words-done" /\ status = "running"

\* C24: for a word count N the wrappers fel_readl_n and fel_writel_n make
\* exactly ceil(N / 244) round trips of at most 244 words each, the address
\* and the buffer advanced by the words of the rounds before, so that the
\* words of [addr, addr + 4N) are covered once and in ascending order; no
\* round asks for more than 244 words (the truncation of aw_fel_readl_n and
\* aw_fel_writel_n is never reached), and N = 0 makes no FEL operation.
C24_WordsInChunks ==
    /\ \A i \in DOMAIN wl.calls : wl.calls[i].n \in 1 .. LCODE_MAX_WORDS
    /\ WordsDone =>
          LET A == cmd.args[1]
              N == cmd.args[2]
              R == Len(wl.calls)
              per == IF wl.fn = "fel_readl_n" THEN 3 ELSE 2
          IN  /\ R = (N + LCODE_MAX_WORDS - 1) \div LCODE_MAX_WORDS
              /\ wl.off = N /\ wl.count = 0
              /\ \A i \in 1 .. R :
                    /\ wl.calls[i].off = IF i = 1 THEN 0
                                         ELSE wl.calls[i - 1].off + wl.calls[i - 1].n
                    /\ wl.calls[i].addr = U32(A + 4 * wl.calls[i].off)
                    /\ SubSeq(WordOps, per * (i - 1) + 1, per * i) = RoundOps(wl.calls[i])
              /\ Len(WordOps) = per * R
              /\ N = 0 => log = <<>>

C24_TenThousandWords ==
    /\ WordsDone
    /\ wl.fn = "fel_writel_n"
    /\ cmd.args[2] = 10000
    /\ Len(wl.calls) = 41
    /\ wl.calls[41].n = 10000 - 40 * LCODE_MAX_WORDS

(***************************************************************************)
(* Properties of a single readl (SpecMem).                                 *)
(***************************************************************************)
\* aw_fel_readl() has returned
ReadlDone == cmd.kind = "readl" /\ status = "running"

\* the FEL operations of the readl itself, a VERSION request of the SoC
\* lookup before them left out
ReadlOps == SubSeq(log, Len(log) - 2, Len(log))

\* the four bytes the target holds where the FEL READ of the readl reads
ReadlBytes == [k \in 1..4 |-> Peek(mem, U32(soc_info_table[soc_info].scratch_addr + 47 + k))]

\* C25: a readl(A) made when the SoC record is already resolved issues
\* exactly three FEL operations: WRITE of the 48-byte thunk to scratch_addr,
\* its last two words A and 1; EXEC(scratch_addr); READ of 4 bytes from
\* scratch_addr + 48.  The value returned is the little-endian decoding of
\* those four bytes.  (A VERSION request precedes them only when the record
\* was not resolved before.)
C25_ReadlIsThreeOps ==
    /\ [](ReadlDone =>
            LET scratch == soc_info_table[soc_info].scratch_addr
                bytes == Payload(ReadlOps[1])
            IN  /\ Len(log) \in { 3, 4 }
                /\ Len(log) = 4 => log[1].op = "VERSION"
                /\ ReadlOps[1].op = "WRITE" /\ ReadlOps[1].addr = scratch
                /\ ReadlOps[1].len = 48 /\ Len(bytes) = 48
                /\ SubSeq(bytes, 41, 44) = LeBytes(W32Of(cmd.args[1]))
                /\ SubSeq(bytes, 45, 48) = << 1, 0, 0, 0 >>
                /\ ReadlOps[2] = FelOp("EXEC", scratch, 0, "exec", <<>>)
                /\ ReadlOps[3].op = "READ" /\ ReadlOps[3].addr = scratch + 48
                /\ ReadlOps[3].len = 4
                /\ readl_val = W32(ReadlBytes[3] + 256 * ReadlBytes[4],
                                   ReadlBytes[1] + 256 * ReadlBytes[2]))
    /\ [][(soc_info # NULL /\ cmd'.kind = "readl" /\ status' = "running")
             => Len(log') = 3]_vars

C25_ResolvedReadl ==
    /\ ReadlDone
    /\ Len(log) = 3
    /\ cmd.args[1] = \h0A000000
    /\ readl_val = W32(0, \hAB)

(***************************************************************************)
(* The unsupported SoC (Spec).                                             *)
(***************************************************************************)
\* the id the device reports is in no record of the table
UnknownSoc == get_soc_info_from_version(dev) = NULL

\* C26: when the SoC id of the VERSION reply is in no record, the spl and
\* uboot commands stop with exit code 1 (unsupported SoC) before a field of
\* the missing record is read and before anything is written to the target,
\* while the version command still prints and processing goes on.
C26_UnsupportedSocRefused ==
    UnknownSoc =>
       /\ LoaderCmd => /\ status = "exited" /\ exit_code = 1
                       /\ \A i \in DOMAIN log : log[i].op = "VERSION"
       /\ cmd.kind = "ver" => /\ status = "running" /\ pc = "ran"
                              /\ Len(log) = 1 /\ log[1].op = "VERSION"

\* the part of C26 that does not depend on what the NULL read does
UnknownSocWritesNothing ==
    UnknownSoc =>
       /\ LoaderCmd => /\ status \in { "exited", "crashed" }
                       /\ \A i \in DOMAIN log : log[i].op = "VERSION"
       /\ cmd.kind = "ver" => /\ status = "running" /\ pc = "ran"
                              /\ Len(log) = 1 /\ log[1].op = "VERSION"

(***************************************************************************)
(* The recorded U-Boot region (Spec).  What follows offset 0x8000 of the   *)
(* file of the command is read byte by byte.                               *)
(***************************************************************************)
LoaderFile == FileData[cmd.args[1]]

\* the bytes of the file beyond SPL_LEN_LIMIT
ImgLen == LoaderFile.len - SPL_LEN_LIMIT

ImgByte(o) == ByteAt(LoaderFile, SPL_LEN_LIMIT + o)

\* big-endian word i of the image header
ImgWord(i) == 16777216 * ImgByte(4 * i) + 65536 * ImgByte(4 * i + 1)
                 + 256 * ImgByte(4 * i + 2) + ImgByte(4 * i + 3)

\* mkimage magic 0x27051956, architecture ARM (2), type FIRMWARE (5), and a
\* data size equal to what follows the 64 header bytes
ImgHeaderOk ==
    /\ << ImgByte(0), ImgByte(1), ImgByte(2), ImgByte(3) >> = << 39, 5, 25, 86 >>
    /\ ImgByte(29) = 2
    /\ ImgByte(30) = 5
    /\ ImgWord(3) = ImgLen - 64

PairUnchanged == uboot_entry = prev_entry /\ uboot_size = prev_size

\* the image data has been written to its load address
ImgWritten ==
    \E i \in DOMAIN log :
        /\ log[i].op = "WRITE" /\ log[i].tag = "uboot"
        /\ log[i].addr = ImgWord(4) /\ log[i].len = ImgWord(3)
        /\ log[i].args = << SPL_LEN_LIMIT + 64 >>

ImgRecorded ==
    /\ ImgHeaderOk
    /\ ImgWritten
    /\ uboot_entry = ImgWord(4)
    /\ uboot_size = ImgWord(3)

\* what C27 says of changes of the pair and of files that pass
RegionFollowsImage ==
    LoaderCmd =>
       /\ ~PairUnchanged => (status = "running" /\ ImgLen > 64 /\ ImgRecorded)
       /\ (status = "running" /\ ImgLen > 64) => ImgRecorded
       /\ status # "running" => (PairUnchanged /\ ~HasTag("uboot"))
       /\ ImgLen <= 64 => (PairUnchanged /\ ~HasTag("uboot"))
       /\ status = "exited" => exit_code = 1
       /\ status = "crashed" => soc_info = NULL

\* C27, as stated: the pair (uboot_entry, uboot_size) changes only when what
\* lies beyond 0x8000 passes every check (more than 64 bytes, magic, ARM,
\* FIRMWARE, data size = remainder - 64) and has been written to its load
\* address, and then equals (load_addr, data_size); on any failed check the
\* process exits with code 1, nothing written to load_addr, the pair
\* unchanged; a file of at most 0x8000 bytes leaves the pair unchanged
\* without error.
C27_AnyFailedCheckExits ==
    /\ RegionFollowsImage
    /\ (LoaderCmd /\ soc_info # NULL /\ LoaderFile.len > SPL_LEN_LIMIT
                  /\ ~(ImgLen > 64 /\ ImgHeaderOk))
          => (status = "exited" /\ exit_code = 1)

\* C27, amended: as above, but only the checks of the header (magic,
\* architecture, type, data size) are fatal; when no more than 64 bytes lie
\* beyond 0x8000 the image step is left without an error, like for a file
\* of at most 0x8000 bytes.
C27_FailedHeaderCheckExits ==
    /\ RegionFollowsImage
    /\ (LoaderCmd /\ soc_info # NULL /\ ImgLen > 64 /\ ~ImgHeaderOk)
          => (status = "exited" /\ exit_code = 1)
    /\ (LoaderCmd /\ ImgLen <= 64 /\ HasTag("handshake") /\ cmd.args[2].hs = "fel")
          => status = "running"

C27_ImageRecorded ==
    /\ LoaderCmd
    /\ cmd.args[1] = "uboot"
    /\ status = "running"
    /\ prev_size = 0
    /\ uboot_entry = \h0A000000
    /\ uboot_size = \h80000
    /\ ImgWritten

(***************************************************************************)
(* The hand-over after an upload (Spec).  The kind of a file is read from  *)
(* its bytes.                                                              *)
(***************************************************************************)
WriteCmd == cmd.kind \in WriteWords \cup MultiWords

\* a mkimage image of type SCRIPT: magic 0x27051956, ARM, type 6
ScriptFile(f) ==
    /\ f.len > 64
    /\ << ByteAt(f, 0), ByteAt(f, 1), ByteAt(f, 2), ByteAt(f, 3) >> = << 39, 5, 25, 86 >>
    /\ ByteAt(f, 29) = 2
    /\ ByteAt(f, 30) = 6

\* the file starts with the six bytes "#=uEnv"
StartsWithUEnv(f) ==
    /\ f.len >= 6
    /\ [k \in 1..6 |-> ByteAt(f, k - 1)] = << 35, 61, 117, 69, 110, 118 >>

\* the four bytes named s are "SPL" and the version byte 1
SunxiSpl1(s) == SplSignatures[s] = << 83, 80, 76, 1 >>

\* the index of the upload that precedes operation i of the command
UploadBefore(i) ==
    CHOOSE j \in 0 .. (i - 1) :
        /\ j > 0 => log[j].tag = "file"
        /\ \A k \in (j + 1) .. (i - 1) : log[k].tag # "file"

IsHandoff(i) == log[i].op = "WRITE" /\ log[i].tag = "handoff"

IsSigRead(i) == log[i].op = "READ" /\ log[i].tag = "spl_sig"

\* the hand-over slots are written only behind a read of "SPL" 1 at
\* spl_addr + 0x14 that follows the upload of a script or uEnv file, and a
\* read of anything else is followed by no such write
HandoffGated ==
    WriteCmd =>
       \A i \in DOMAIN log :
          /\ IsHandoff(i) =>
                /\ i > 1 /\ IsSigRead(i - 1) /\ SunxiSpl1(log[i - 1].args[1])
                /\ log[i - 1].addr = soc_info_table[soc_info].spl_addr + 20
                /\ log[i - 1].len = 4
                /\ log[i].addr = soc_info_table[soc_info].spl_addr + 24
                /\ log[i].len = 8
                /\ UploadBefore(i) > 0
                /\ \/ ScriptFile(FileData[log[UploadBefore(i)].args[1]])
                   \/ StartsWithUEnv(FileData[log[UploadBefore(i)].args[1]])
          /\ (IsSigRead(i) /\ ~SunxiSpl1(log[i].args[1]))
                => (i = Len(log) \/ ~IsHandoff(i + 1))
          /\ (log[i].tag = "file" /\ ~ScriptFile(FileData[log[i].args[1]])
                                  /\ ~StartsWithUEnv(FileData[log[i].args[1]]))
                => (i = Len(log) \/ log[i + 1].tag = "file")

\* C28: a write-family command writes the hand-over slots at spl_addr + 0x18
\* only if the file just uploaded is a mkimage SCRIPT image or starts with
\* "#=uEnv" and the four bytes read from spl_addr + 0x14 are "SPL" and the
\* version byte 1; in every other case nothing is written to the slots and
\* the rest of the command proceeds without error.
C28_HandoffOnlyForSunxiSpl ==
    /\ HandoffGated
    /\ (WriteCmd /\ ~HasTag("handoff")) => status # "crashed"

\* the file whose upload precedes operation i
FileBefore(i) == FileData[log[UploadBefore(i)].args[1]]

\* C29, as stated: the two words written to the hand-over slots are the
\* address the file just uploaded was written to and the length of that
\* file, for a SCRIPT image and for a "#=uEnv" file alike.
C29_AddressAndLength ==
    WriteCmd =>
       \A i \in DOMAIN log :
          IsHandoff(i) =>
             /\ log[UploadBefore(i)].len = FileBefore(i).len
             /\ log[i].args = << log[UploadBefore(i)].addr, FileBefore(i).len >>

\* C29, amended: the first word is the address the file just uploaded was
\* written to; the second word is the length of the file when it starts with
\* "#=uEnv", and 0 when it is a SCRIPT image.
C29_AddressAndUEnvLength ==
    WriteCmd =>
       \A i \in DOMAIN log :
          IsHandoff(i) =>
             /\ log[UploadBefore(i)].len = FileBefore(i).len
             /\ log[i].args = << log[UploadBefore(i)].addr,
                                 IF ScriptFile(FileBefore(i)) THEN 0
                                 ELSE FileBefore(i).len >>

C29_ScriptHandedOver ==
    /\ WriteCmd
    /\ status = "running"
    /\ \E i \in DOMAIN log :
          /\ IsHandoff(i)
          /\ log[UploadBefore(i)].args[1] = "boot.scr"
          /\ log[i].args[2] = 0
          /\ log[i].args[1] = log[UploadBefore(i)].addr

\* the upload at operation i was followed by pass_fel_information(): the
\* signature at spl_addr + 0x14 was read before the next upload
HandedOn(i) == \E k \in DOMAIN log : k > i /\ IsSigRead(k) /\ UploadBefore(k) = i

\* C30: a buffer is recognised as uEnv-style iff it has at least six bytes
\* and its first six bytes are "#=uEnv"; a buffer of exactly those six bytes
\* is recognised.  (A file that is no SCRIPT image is handed on after its
\* upload iff is_uEnv() recognised it.)
C30_UEnvIffSixBytes ==
    (WriteCmd /\ status = "running") =>
       \A i \in DOMAIN log :
          (log[i].tag = "file" /\ ~ScriptFile(FileData[log[i].args[1]]))
             => (HandedOn(i) <=> StartsWithUEnv(FileData[log[i].args[1]]))

\* is_uEnv() as it is: more than six bytes are asked for
UEnvIffMoreThanSix ==
    (WriteCmd /\ status = "running") =>
       \A i \in DOMAIN log :
          (log[i].tag = "file" /\ ~ScriptFile(FileData[log[i].args[1]]))
             => (HandedOn(i) <=> (/\ StartsWithUEnv(FileData[log[i].args[1]])
                                  /\ FileData[log[i].args[1]].len > 6))

(***************************************************************************)
(* The order of the FEL operations of the SPL loader (Spec).               *)
(***************************************************************************)
\* the handshake was read before operation i
AfterHandshake(i) == \E j \in 1 .. (i - 1) : log[j].tag = "handshake"

\* the step of the loader a FEL WRITE or READ belongs to
StepOf(i) ==
    CASE log[i].tag = "version" -> 0
      [] log[i].tag = "l2en" -> 1
      [] log[i].tag = "stackinfo" -> 2
      [] log[i].tag \in { "mrc", "cp_reg" } -> IF AfterHandshake(i) THEN 10 ELSE 3
      [] log[i].tag = "tt" -> IF log[i].op = "READ" THEN 4 ELSE 11
      [] log[i].tag = "mmu_off" -> 5
      [] log[i].tag = "mcr" -> 6
      [] log[i].tag = "spl" -> 7
      [] log[i].tag = "thunk" -> 8
      [] log[i].tag = "handshake" -> 9
      [] log[i].tag = "mmu_on" -> 12
      [] log[i].tag = "uboot" -> 13
      [] OTHER -> -1

\* an EXEC belongs to the step of the code written just before it
Step(i) == IF log[i].op = "EXEC" THEN (IF i > 1 THEN StepOf(i - 1) ELSE -1) ELSE StepOf(i)

\* the number of FEL operations op with tag t
OpCount(op, t) == Cardinality({ i \in DOMAIN log : log[i].op = op /\ log[i].tag = t })

\* the spl or uboot command has run to its end
LoaderDone == LoaderCmd /\ status = "running"

\* the boot ROM had the MMU on when the command began
MmuWasOn == Bit(RunMmu.sctlr, 0) = 1

\* C31: on a successful spl or uboot run the FEL operations reach the
\* target in this order: L2 enable (iff needs_l2en), stack probe, the
\* register reads of the MMU backup and, if the MMU was on, the table read
\* and the code that disables the MMU, the SPL data, the WRITE of the thunk
\* to thunk_addr, EXEC(thunk_addr), the READ of 8 bytes at spl_addr + 4, the
\* MMU restore (table upload, then the enabling code, iff a table is held),
\* the U-Boot image; no step is out of its place or made twice.
C31_LoaderOrder ==
    LoaderDone =>
       LET soc == soc_info_table[soc_info]
       IN  /\ \A i \in DOMAIN log : Step(i) >= 0
           /\ \A i, j \in DOMAIN log : i < j => Step(i) <= Step(j)
           /\ OpCount("WRITE", "l2en") = IF soc.needs_l2en THEN 1 ELSE 0
           /\ OpCount("WRITE", "stackinfo") = 1
           /\ OpCount("READ", "stackinfo") = 1
           /\ OpCount("READ", "tt") = IF MmuWasOn THEN 1 ELSE 0
           /\ OpCount("WRITE", "mmu_off") = IF MmuWasOn THEN 1 ELSE 0
           /\ OpCount("WRITE", "spl") >= 1
           /\ OpCount("WRITE", "thunk") = 1
           /\ OpCount("READ", "handshake") = 1
           /\ OpCount("WRITE", "tt") = IF MmuWasOn \/ soc.mmu_tt_addr # 0 THEN 1 ELSE 0
           /\ OpCount("WRITE", "mmu_on") = OpCount("WRITE", "tt")
           /\ OpCount("WRITE", "uboot") <= 1
           /\ \A i \in DOMAIN log :
                 /\ log[i].tag = "thunk" =>
                       /\ log[i].addr = soc.thunk_addr
                       /\ log[i + 1] = FelOp("EXEC", soc.thunk_addr, 0, "exec", <<>>)
                       /\ log[i + 2] = FelOp("READ", soc.spl_addr + 4, 8, "handshake", <<>>)
                 /\ log[i].op = "EXEC" =>
                       /\ i > 1 /\ log[i - 1].op = "WRITE"
                       /\ log[i - 1].addr = log[i].addr
                 /\ (log[i].op = "WRITE" /\ log[i].tag \in { "l2en", "stackinfo", "mrc",
                                                          "mmu_off", "mcr", "mmu_on" })
                       => /\ log[i].addr = soc.scratch_addr
                          /\ i < Len(log) /\ log[i + 1].op = "EXEC"

C31_EveryStepTaken ==
    /\ LoaderDone
    /\ soc_info_table[soc_info].needs_l2en
    /\ MmuWasOn
    /\ HasTag("l2en") /\ HasTag("mmu_off") /\ HasTag("mmu_on") /\ HasTag("uboot")
    /\ log[Len(log)].tag = "uboot"

(***************************************************************************)
(* The payload of the FEL-to-SPL thunk (Spec).                             *)
(***************************************************************************)
\* the bytes that follow fel_to_spl_thunk in the WRITE of the thunk
ThunkTail(op) == htole32_n([k \in DOMAIN op.args |-> W32Of(op.args[k])])

\* entry k of the swap list found in the bytes b, read as little-endian words
TailEntry(b, k) ==
    [buf1 |-> W32Val(le32_of(b, 3 * k - 2)),
     buf2 |-> W32Val(le32_of(b, 3 * k - 1)),
     size |-> W32Val(le32_of(b, 3 * k))]

\* the size of the thunk with the list of a record
ThunkNeed(soc) == FEL_TO_SPL_THUNK_SIZE + 4 + 12 * Len(soc.swap_buffers)

\* C32: the payload written to thunk_addr is the fixed blob followed by
\* spl_addr and the complete swap list, the entries that drove the upload
\* in their order and the terminator of size 0, as little-endian words; if
\* its size, blob + 4 + 12 * (entries + 1) bytes, exceeds the thunk_size of
\* the record the process exits with code 1 and neither the WRITE of the
\* thunk nor EXEC(thunk_addr) is issued.
C32_ThunkPayload ==
    (LoaderCmd /\ soc_info # NULL) =>
       LET soc == soc_info_table[soc_info]
       IN  /\ \A i \in DOMAIN log :
                 log[i].tag = "thunk" =>
                    /\ log[i].op = "WRITE" /\ log[i].addr = soc.thunk_addr
                    /\ log[i].len = ThunkNeed(soc)
                    /\ log[i].len = FEL_TO_SPL_THUNK_SIZE + Len(ThunkTail(log[i]))
                    /\ W32Val(le32_of(ThunkTail(log[i]), 0)) = soc.spl_addr
                    /\ \A k \in DOMAIN soc.swap_buffers :
                          TailEntry(ThunkTail(log[i]), k) = soc.swap_buffers[k]
                    /\ TailEntry(ThunkTail(log[i]), Len(soc.swap_buffers)).size = 0
                    /\ \A j \in 1 .. (i - 1) :
                          (log[j].tag = "spl" /\ log[j].addr # soc.spl_addr + log[j].args[1])
                             => \E k \in 1 .. (Len(soc.swap_buffers) - 1) :
                                   /\ TailEntry(ThunkTail(log[i]), k).buf1
                                         = soc.spl_addr + log[j].args[1]
                                   /\ TailEntry(ThunkTail(log[i]), k).buf2 = log[j].addr
           /\ ThunkNeed(soc) > soc.thunk_size
                 => /\ status = "exited"
                    /\ exit_code = 1
                    /\ ~HasTag("thunk")
                    /\ \A i \in DOMAIN log :
                          ~(log[i].op = "EXEC" /\ log[i].addr = soc.thunk_addr)

C32_ThunkDoesNotFit ==
    /\ LoaderCmd
    /\ soc_info # NULL
    /\ ThunkNeed(soc_info_table[soc_info]) > soc_info_table[soc_info].thunk_size
    /\ Len(SplWrites) >= 2
    /\ status = "exited"

(***************************************************************************)
(* The bounds of the scratch area (Spec).                                  *)
(***************************************************************************)
\* the tags of the operations the thunk generator directs at the scratch area
ScratchTags ==
    { "l2en", "stackinfo", "mrc", "cp_reg", "mcr", "mmu_off", "mmu_on", "rmr",
      "readl_n", "writel_n" }

\* the operations of l made for the scratch area lie inside its 256 words
ScratchOps(l, soc) ==
    \A i \in DOMAIN l :
       l[i].tag \in ScratchTags =>
          /\ l[i].op \in { "WRITE", "READ" }
          /\ l[i].len > 0
          /\ soc.scratch_addr <= l[i].addr
          /\ l[i].addr + l[i].len <= soc.scratch_addr + 4 * LCODE_MAX_TOTAL

\* a round trip of l carries the 12 words of code and at most 244 of data
RoundSized(l) ==
    \A i \in DOMAIN l :
       /\ (l[i].tag = "readl_n" /\ l[i].op = "WRITE") => l[i].len = 4 * LCODE_ARM_WORDS
       /\ (l[i].tag = "readl_n" /\ l[i].op = "READ") => l[i].len <= 4 * LCODE_MAX_WORDS
       /\ l[i].tag = "writel_n" =>
             /\ l[i].len > 4 * LCODE_ARM_WORDS
             /\ l[i].len <= 4 * (LCODE_ARM_WORDS + LCODE_MAX_WORDS)

\* C33: every FEL WRITE and READ the thunk generator directs at the scratch
\* area (coprocessor read and write, readl_n, writel_n, L2 enable, stack
\* probe, MMU disable and enable, RMR) lies within
\* [scratch_addr, scratch_addr + 1024); a round trip of readl_n or writel_n
\* uses 12 words of code and at most 244 words of data, whatever count is
\* requested.
C33_ScratchBounded ==
    soc_info # NULL =>
       /\ ScratchOps(log, soc_info_table[soc_info])
       /\ RoundSized(log)
       /\ status = "running" =>
             \A n \in WordCounts \ { 0 } :
                /\ ScratchOps(aw_fel_readl_n(St, dev, \h4000, n).log,
                              soc_info_table[soc_info])
                /\ RoundSized(aw_fel_readl_n(St, dev, \h4000, n).log)
                /\ Len(aw_fel_readl_n(St, dev, \h4000, n).log) = 3
                /\ ScratchOps(aw_fel_writel_n(St, dev, \h4000,
                                              SrcFrom(0, LCODE_MAX_WORDS), n).log,
                              soc_info_table[soc_info])
                /\ RoundSized(aw_fel_writel_n(St, dev, \h4000,
                                              SrcFrom(0, LCODE_MAX_WORDS), n).log)
                /\ Len(aw_fel_writel_n(St, dev, \h4000,
                                       SrcFrom(0, LCODE_MAX_WORDS), n).log) = 2

C33_ScratchInUse ==
    /\ soc_info # NULL
    /\ status = "running"
    /\ \E i \in DOMAIN log :
          /\ log[i].tag = "readl_n" /\ log[i].op = "READ" /\ log[i].len = 16
          /\ log[i].addr = soc_info_table[soc_info].scratch_addr + 4 * LCODE_ARM_WORDS

(***************************************************************************)
(* The lookup of the SoC record (Spec).                                    *)
(***************************************************************************)
\* the number of VERSION requests among the operations l
VersionCount(l) == Cardinality({ i \in DOMAIN l : l[i].op = "VERSION" })

\* the device reports a SoC id the table has a record for
SupportedSoc == get_soc_info_from_version(dev) # NULL

\* C34: across any command sequence on a supported SoC the lookup of the
\* SoC record issues the FEL VERSION operation at most once: the first
\* operation that needs the record makes one VERSION probe, every later one
\* (readl, writel, sid, spl, uboot, reset64, the hand-over) makes none and
\* sees the same record.  The command ver asks for the version itself and
\* is left aside.
C34_VersionOnce ==
    [][ (SupportedSoc /\ cmd'.kind # "ver") =>
           /\ soc_info # NULL => /\ VersionCount(log') = 0
                                 /\ soc_info' = soc_info
           /\ soc_info = NULL => /\ VersionCount(log') <= 1
                                 /\ soc_info' # NULL <=> VersionCount(log') = 1
                                 /\ soc_info' \in { NULL, get_soc_info_from_version(dev) }
      ]_vars

C34_CachedRecord ==
    /\ SupportedSoc
    /\ soc_info = get_soc_info_from_version(dev)
    /\ cmd.kind \in { "readl", "sid", "spl", "uboot", "reset64" }
    /\ Len(log) > 0
    /\ VersionCount(log) = 0

(***************************************************************************)
(* The entries of the generated translation table (Spec).                  *)
(***************************************************************************)
\* the positions of the bits set in the low 20 bits of an entry
LowBits(e) == { k \in 0 .. 19 : Bit(e.low, k) = 1 }

\* the generated table is being uploaded to the target
GeneratedUploaded ==
    \E t \in DOMAIN log :
       log[t].op = "WRITE" /\ log[t].tag = "tt" /\ log[t].args = <<"generated">>

\* C35: entry i of the synthesized table equals (i << 20) | 0xDE2, and the
\* entries 0 and 0xFFF have bit 12 set in addition; hence every entry
\* passes the shape test of the backup path: (tt[i] >> 20) = i, bit 1 set,
\* bit 18 clear.
C35_GeneratedEntries ==
    GeneratedUploaded =>
       \A i \in 0 .. (TT_ENTRIES - 1) :
          /\ generated_tt(i).sec = i
          /\ generated_tt(i).low < 2 ^ 20
          /\ LowBits(generated_tt(i))
                = { 1, 5, 6, 7, 8, 10, 11 } \cup (IF i \in { 0, \hFFF } THEN { 12 } ELSE {})
          /\ ShapeOk(generated_tt(i), i)
          /\ tt_is_section(generated_tt(i))

C35_GeneratedTableSent ==
    /\ GeneratedUploaded
    /\ soc_info # NULL
    /\ \E t \in DOMAIN log :
          /\ log[t].tag = "tt"
          /\ log[t].addr = soc_info_table[soc_info].mmu_tt_addr
          /\ log[t].len = 4 * TT_ENTRIES

(***************************************************************************)
(* What a rejected SPL leaves behind (Spec).                               *)
(***************************************************************************)
\* the SPL of the command exceeds the size limit of the SoC
SplTooLong ==
    /\ cmd.args[1] \in EgonValidFiles
    /\ EgonLen(FileData[cmd.args[1]]) > SplLenLimit(soc_info_table[soc_info])

\* the loader has written SPL data or has run the code that disables the MMU
TargetTouched ==
    \/ HasTag("spl")
    \/ \E i \in DOMAIN log :
          /\ log[i].tag = "mmu_off"
          /\ i < Len(log) /\ log[i + 1].op = "EXEC"

\* C36: every rejection of an SPL by the loader (bad header, bad length,
\* bad checksum, or a length above the effective size limit) happens before
\* any byte of the SPL has been written to the target and before the code
\* that disables the MMU has been executed.
C36_RejectedBeforeAnyWrite ==
    (LoaderCmd /\ soc_info # NULL /\ (cmd.args[1] \notin EgonValidFiles \/ SplTooLong))
        => /\ status = "exited" /\ exit_code = 1
           /\ ~TargetTouched

\* a file refused for its header, length or checksum leaves the target as
\* it was: nothing but the VERSION request of the lookup has been made
BadHeaderTouchesNothing ==
    (LoaderCmd /\ soc_info # NULL /\ cmd.args[1] \notin EgonValidFiles)
        => /\ status = "exited" /\ exit_code = 1
           /\ \A i \in DOMAIN log : log[i].op = "VERSION"

\* an SPL above the size limit is refused, but not before the target was
\* touched whenever the swap loop had data to write or the MMU was on
TooLongRefusedLate ==
    (LoaderCmd /\ soc_info # NULL /\ SplTooLong)
        => /\ status = "exited" /\ exit_code = 1
           /\ ~HasTag("thunk")
           /\ (HasTag("stackinfo") /\ Bit(RunMmu.sctlr, 0) = 1 /\ HasTag("tt"))
                 => (HasTag("mmu_off") <=> TTValid[cmd.args[2].mmu])

(***************************************************************************)
(* The state of the MMU at the end of a run of the loader (Spec).          *)
(***************************************************************************)
\* the code tagged t has been written and executed
Executed(t) ==
    \E i \in DOMAIN log :
       /\ log[i].op = "WRITE" /\ log[i].tag = t
       /\ i < Len(log) /\ log[i + 1].op = "EXEC" /\ log[i + 1].addr = log[i].addr

\* the handshake was read and is "eGON.FEL"
HandshakeOk == HasTag("handshake") /\ cmd.args[2].hs = "fel"

\* the loader holds a table: read back because the boot ROM had the MMU on,
\* or generated because the MMU was off and the record names mmu_tt_addr
TableHeld == MmuWasOn \/ soc_info_table[soc_info].mmu_tt_addr # 0

\* the MMU of the target is on
MmuOn == Bit(cp.sctlr, 0) = 1

\* C37: within one run of the loader the code that enables the MMU is
\* executed iff the handshake succeeded and a table is held (backed up, or
\* synthesized because the MMU was off and mmu_tt_addr is set); so the MMU
\* of the target ends enabled after a successful run in exactly those two
\* cases, stays off when it was off and mmu_tt_addr is absent, and is left
\* disabled with no restore attempted when the run ends between the code
\* that disables the MMU and the test of the handshake (size limit, thunk
\* size or handshake failure).
C37_MmuAtTheEnd ==
    (LoaderCmd /\ soc_info # NULL) =>
       /\ Executed("mmu_on") <=> (HandshakeOk /\ TableHeld)
       /\ HasTag("mmu_on") => Executed("mmu_on")
       /\ status = "running" => (MmuOn <=> TableHeld)
       /\ (status = "running" /\ ~MmuWasOn /\ soc_info_table[soc_info].mmu_tt_addr = 0)
             => ~MmuOn /\ ~HasTag("tt") /\ ~HasTag("mcr")
       /\ (Executed("mmu_off") /\ status = "exited" /\ ~HandshakeOk)
             => /\ ~MmuOn
                /\ ~HasTag("mmu_on")
                /\ \A i \in DOMAIN log : ~(log[i].op = "WRITE" /\ log[i].tag = "tt")

C37_LeftDisabled ==
    /\ LoaderCmd /\ soc_info # NULL
    /\ MmuWasOn
    /\ Executed("mmu_off")
    /\ HasTag("handshake") /\ cmd.args[2].hs # "fel"
    /\ status = "exited"
    /\ ~MmuOn

\* the two other ends between the disabling code and the handshake
C37_RefusedAfterDisable ==
    /\ LoaderCmd /\ soc_info # NULL
    /\ Executed("mmu_off")
    /\ ~HasTag("thunk")
    /\ status = "exited"

(***************************************************************************)
(* What the overwrite guard refuses (Spec).                                *)
(***************************************************************************)
\* the command asks aw_write_buffer() for the range of FirstRequest (an
\* empty file is not handed to it)
RangeRequested ==
    \/ cmd.kind \in WriteWords /\ FileData[cmd.args[2]].len > 0
    \/ cmd.kind \in { "fill", "clear" } /\ cmd.args[Len(cmd.args)] = "pass"

\* the range asked for has been transferred by a FEL WRITE
FirstTransferred ==
    /\ Len(log) >= 1
    /\ log[1].op = "WRITE"
    /\ log[1].addr = FirstRequest[1]
    /\ log[1].len = FirstRequest[2]

\* the guard has ended the process before anything was transferred
RefusedByGuard == status = "exited" /\ exit_code = 1 /\ log = <<>>

\* C38: the overwrite guard refuses a write only when the ranges really
\* intersect: with a recorded region (uboot_size > 0) a write that ends
\* exactly at uboot_entry or starts exactly at uboot_entry + uboot_size is
\* transferred, as is any other write disjoint from
\* [uboot_entry, uboot_entry + uboot_size); while uboot_size = 0 no write is
\* ever refused.
C38_OnlyIntersectingRefused ==
    RangeRequested =>
       /\ (prev_size > 0
           /\ ~RangesIntersect(FirstRequest[1], FirstRequest[2], prev_entry, prev_size))
             => FirstTransferred
       /\ prev_size = 0 => FirstTransferred

\* while no region is recorded no write is refused
NoRegionNoRefusal == (RangeRequested /\ prev_size = 0) => FirstTransferred

\* what the guard does refuse: every range that reaches from at or below the
\* end of the region to at or above its start, the two touching ranges and
\* the empty range inside the region included
RefusedIffInclusive ==
    (RangeRequested /\ prev_size > 0) =>
       /\ RefusedByGuard <=> /\ FirstRequest[1] <= U32(prev_entry + prev_size)
                             /\ FirstRequest[1] + FirstRequest[2] >= prev_entry
       /\ ~RefusedByGuard => FirstTransferred

====
